---------------------------- MODULE Spec2Model ----------------------------
(***************************************************************************)
(* A model of saling_analyzer.py: the sales-analytics dashboard of a       *)
(* clothing brand.  The module models the style-code decoder, the          *)
(* fiber-blend parser, and the data actions on the hosted database with    *)
(* the session state and the load cache.                                   *)
(*                                                                         *)
(* Text is modelled as a sequence of one-character strings, so that        *)
(* strip(), upper(), split and slicing are computed and not assumed.       *)
(* A cell of a table is a tagged record: [t |-> "none"] for None/NaN,      *)
(* [t |-> "str", s |-> <<...>>] for text, [t |-> "num", n |-> k] for a     *)
(* number.  Korean display strings of the source are written in a          *)
(* romanised form, the original being given in the comment beside them.    *)
(***************************************************************************)
EXTENDS Integers, Sequences, FiniteSets, TLC

VARIABLES
    lookup,          \* the module-level lookup dicts GENDER/ITEM/CATEGORY/YEAR/SEASON_MAPPING
    df,              \* the table handed to enrich_sales_data
    enriched,        \* what enrich_sales_data returned for df
    decoded_log,     \* every (style code cell, decoded tuple) pair an enrichment has produced
    blend_fibers,    \* parse_blend_components / derive_blend_features: first argument
    blend_ratio,     \* parse_blend_components / derive_blend_features: second argument
    comps,           \* what parse_blend_components returned
    feats,           \* what derive_blend_features returned
    fiber_name,      \* _norm_fiber_name: argument
    fiber_norm,      \* _norm_fiber_name: result
    supabase,        \* the cached client: "client", or "None" when init_supabase failed
    sales_data,      \* rows of the hosted table sales_data
    material_data,   \* rows of the hosted table material_data
    cache_sales,     \* st.cache_data entry of load_sales_data
    cache_material,  \* st.cache_data entry of load_material_data
    session_sales,   \* st.session_state.sales_data
    session_material,\* st.session_state.material_data
    last_call,       \* the database function the latest step called (name, argument, result), if any
    home_chat,       \* st.session_state.home_chat: the entries of the home chat
    posts,           \* the HTTP POSTs the latest step issued
    shown,           \* what the latest step rendered: a message, a result, or an uncaught exception
    inputs,          \* the widget values the latest step read: the manual form, the uploaded sheet, the button
    replacing,       \* concurrent sessions inside replace_sales_data: for each its upload and its position
    history,         \* the history in the payload of the question the latest step asked, else <<>>
    rendered,        \* the chat messages on the screen after the latest run of the home page
    material_name,   \* get_material_row: first argument
    mat_df,          \* get_material_row: second argument
    mat_row          \* what get_material_row returned

vars == <<lookup, df, enriched, decoded_log, blend_fibers, blend_ratio, comps, feats,
          fiber_name, fiber_norm, supabase, sales_data, material_data,
          cache_sales, cache_material, session_sales, session_material, last_call,
          home_chat, posts, shown, inputs, replacing, history, rendered,
          material_name, mat_df, mat_row>>

decodeVars == <<df, enriched, decoded_log>>
blendVars == <<blend_fibers, blend_ratio, comps, feats>>
fiberVars == <<fiber_name, fiber_norm>>
dbVars == <<supabase, sales_data, material_data, cache_sales, cache_material,
            session_sales, session_material, last_call>>
uiVars == <<home_chat, posts, shown, inputs>>
chatVars == <<history, rendered>>
matVars == <<material_name, mat_df, mat_row>>

-----------------------------------------------------------------------------
(* Bounds of the model *)

\* rows a hosted table can hold in the model
MaxRows == 2
\* rows of one uploaded sheet
MaxUpload == 2
\* "/"-separated parts of a fiber string
MaxFiberParts == 2
\* "/"-separated parts of a ratio string
MaxRatioParts == 3

\* questions the home chat takes in the model
MaxQuestions == 2

-----------------------------------------------------------------------------
(* Cells and text *)

None == [t |-> "none"]
Str(s) == [t |-> "str", s |-> s]
Num(n) == [t |-> "num", n |-> n]

Min(a, b) == IF a <= b THEN a ELSE b

IsSpace(c) == c \in {" ", "\t"}

\* Python str.strip(): leading and trailing blanks removed
RECURSIVE LStrip(_)
LStrip(s) == IF s # <<>> /\ IsSpace(Head(s)) THEN LStrip(Tail(s)) ELSE s

RECURSIVE RStrip(_)
RStrip(s) == IF s # <<>> /\ IsSpace(s[Len(s)]) THEN RStrip(SubSeq(s, 1, Len(s) - 1)) ELSE s

Strip(s) == RStrip(LStrip(s))

\* Python slicing s[a:b] with 0 <= a <= b (clipped to the length)
Slice(s, a, b) == SubSeq(s, a + 1, Min(b, Len(s)))

Digit(k) == <<"0", "1", "2", "3", "4", "5", "6", "7", "8", "9">>[k + 1]

RECURSIVE NatToStr(_)
NatToStr(n) == IF n < 10 THEN <<Digit(n)>> ELSE NatToStr(n \div 10) \o <<Digit(n % 10)>>

\* Python str() of a cell: str(None) is "None", str of an int its decimal digits
PyStr(c) ==
    CASE c.t = "none" -> <<"N", "o", "n", "e">>
      [] c.t = "str"  -> c.s
      [] c.t = "num"  -> IF c.n < 0 THEN <<"-">> \o NatToStr(-c.n) ELSE NatToStr(c.n)

\* Python truthiness of a cell: None, "" and 0 are falsy
Truthy(c) ==
    CASE c.t = "none" -> FALSE
      [] c.t = "str"  -> c.s # <<>>
      [] c.t = "num"  -> c.n # 0

-----------------------------------------------------------------------------
(* Style-code decoding *)

ALSUEOPSEUM == "alsueopseum"   \* "알수없음" (unknown)
GITA == "gita"                 \* "기타" (other)

GENDER_MAPPING ==
    ( <<"M">> :> "namseong"       \* 남성
   @@ <<"W">> :> "yeoseong"       \* 여성
   @@ <<"U">> :> "gongyong" )     \* 공용

ITEM_MAPPING ==
    ( <<"D","J">> :> "daunjeompeo"       @@ <<"D","V">> :> "daunbeseuteu"
   @@ <<"J","K">> :> "jaket"             @@ <<"J","P">> :> "jeompeo"
   @@ <<"K","C">> :> "niteugadigeon"     @@ <<"P","D">> :> "paeding"
   @@ <<"V","T">> :> "beseuteu"          @@ <<"W","J">> :> "windeubeureikeo"
   @@ <<"W","T">> :> "ubeuntisyeocheu"   @@ <<"H","D">> :> "hudeuti"
   @@ <<"K","P">> :> "seuweteopulobeo"   @@ <<"K","V">> :> "seuweteobeseuteu"
   @@ <<"K","U">> :> "banpalseuweteo"    @@ <<"M","T">> :> "maentumaen"
   @@ <<"O","P">> :> "wonpiseu"          @@ <<"P","Q">> :> "pollotisyeocheu"
   @@ <<"R","L">> :> "ginpaltisyeocheu"  @@ <<"R","S">> :> "banpaltisyeocheu"
   @@ <<"T","R">> :> "teureiningsangui"  @@ <<"W","S">> :> "ubeunsyeocheu"
   @@ <<"L","G">> :> "regingseu"         @@ <<"P","T">> :> "paencheu"
   @@ <<"S","K">> :> "seukeoteu"         @@ <<"S","P">> :> "banbaji"
   @@ <<"S","R">> :> "yeoseonghauiseukoteu"
   @@ <<"T","B">> :> "teureiningsyotpaencheu"
   @@ <<"T","P">> :> "teureininghaui"
   @@ <<"B","R">> :> "beura"             @@ <<"S","L">> :> "seullibeuriseu" )

AUTEO == "auteo"   \* "아우터" (outer)
INEO == "ineo"     \* "이너" (inner)
HAUI == "haui"     \* "하의" (bottom)

CATEGORY_MAPPING ==
    [k \in DOMAIN ITEM_MAPPING |->
        CASE k \in {<<"D","J">>, <<"D","V">>, <<"J","K">>, <<"J","P">>, <<"K","C">>,
                    <<"P","D">>, <<"V","T">>, <<"W","J">>, <<"W","T">>} -> AUTEO
          [] k \in {<<"H","D">>, <<"K","P">>, <<"K","V">>, <<"K","U">>, <<"M","T">>,
                    <<"O","P">>, <<"P","Q">>, <<"R","L">>, <<"R","S">>, <<"T","R">>,
                    <<"W","S">>} -> INEO
          [] k \in {<<"L","G">>, <<"P","T">>, <<"S","K">>, <<"S","P">>, <<"S","R">>,
                    <<"T","B">>, <<"T","P">>} -> HAUI
          [] k \in {<<"B","R">>, <<"S","L">>} -> GITA]

SEASON_MAPPING ==
    ( <<"1">> :> "bom"          \* 봄
   @@ <<"3">> :> "yeoreum"      \* 여름
   @@ <<"4">> :> "gaeul"        \* 가을
   @@ <<"6">> :> "gyeoul" )     \* 겨울

YEAR_MAPPING ==
    ( <<"3">> :> "2023" @@ <<"4">> :> "2024" @@ <<"5">> :> "2025" @@ <<"6">> :> "2026" )

\* the five dicts as the interpreter holds them after the module is loaded
LookupTables ==
    [gender |-> GENDER_MAPPING, item |-> ITEM_MAPPING, category |-> CATEGORY_MAPPING,
     year |-> YEAR_MAPPING, season |-> SEASON_MAPPING]

\* dict.get(key, default) with a key that is a cell (text or None)
DictGet(d, key, default) ==
    IF key.t = "str" /\ key.s \in DOMAIN d THEN d[key.s] ELSE default

\* a mutant of parse_item_code: the minimum length is taken to be seven
parse_item_code_min7(code) ==
    IF ~Truthy(code) THEN None
    ELSE LET c == Strip(PyStr(code)) IN
         IF Len(c) < 7 THEN None
         ELSE [t |-> "dict",
               brand     |-> IF Len(c) > 0 THEN Str(<<c[1]>>) ELSE None,
               gender    |-> IF Len(c) > 1 THEN Str(<<c[2]>>) ELSE None,
               item_code |-> IF Len(c) >= 4 THEN Str(Slice(c, 2, 4)) ELSE None,
               sequence  |-> IF Len(c) >= 7 THEN Str(Slice(c, 4, 7)) ELSE None,
               year      |-> IF Len(c) >= 8 THEN Str(<<c[8]>>) ELSE None,
               season    |-> IF Len(c) >= 9 THEN Str(<<c[9]>>) ELSE None]

\* a mutant of parse_item_code: the year is read one character early (code[6])
parse_item_code_year6(code) ==
    IF ~Truthy(code) THEN None
    ELSE LET c == Strip(PyStr(code)) IN
         IF Len(c) < 8 THEN None
         ELSE [t |-> "dict",
               brand     |-> IF Len(c) > 0 THEN Str(<<c[1]>>) ELSE None,
               gender    |-> IF Len(c) > 1 THEN Str(<<c[2]>>) ELSE None,
               item_code |-> IF Len(c) >= 4 THEN Str(Slice(c, 2, 4)) ELSE None,
               sequence  |-> IF Len(c) >= 7 THEN Str(Slice(c, 4, 7)) ELSE None,
               year      |-> IF Len(c) >= 8 THEN Str(<<c[7]>>) ELSE None,
               season    |-> IF Len(c) >= 9 THEN Str(<<c[9]>>) ELSE None]

\* parse_item_code: None for an absent or short code, else the characters at the
\* fixed offsets (a field whose characters are missing is None)
parse_item_code(code) ==
    IF ~Truthy(code) THEN None
    ELSE LET c == Strip(PyStr(code)) IN
         IF Len(c) < 8 THEN None
         ELSE [t |-> "dict",
               brand     |-> IF Len(c) > 0 THEN Str(<<c[1]>>) ELSE None,
               gender    |-> IF Len(c) > 1 THEN Str(<<c[2]>>) ELSE None,
               item_code |-> IF Len(c) >= 4 THEN Str(Slice(c, 2, 4)) ELSE None,
               sequence  |-> IF Len(c) >= 7 THEN Str(Slice(c, 4, 7)) ELSE None,
               year      |-> IF Len(c) >= 8 THEN Str(<<c[8]>>) ELSE None,
               season    |-> IF Len(c) >= 9 THEN Str(<<c[9]>>) ELSE None]

\* the five columns enrich_sales_data computes for one row, read from the dicts d
\* (gender = 성별, item_name = 아이템명, category = 카테고리, year = 연도, season = 시즌)
DecodeRow(d, row) ==
    LET parsed == parse_item_code(row.code) IN
    IF parsed.t = "dict"
    THEN [gender    |-> DictGet(d.gender, parsed.gender, ALSUEOPSEUM),
          item_name |-> DictGet(d.item, parsed.item_code, ALSUEOPSEUM),
          category  |-> DictGet(d.category, parsed.item_code, GITA),
          year      |-> DictGet(d.year, parsed.year, ALSUEOPSEUM),
          season    |-> DictGet(d.season, parsed.season, ALSUEOPSEUM)]
    ELSE [gender |-> ALSUEOPSEUM, item_name |-> ALSUEOPSEUM, category |-> GITA,
          year |-> ALSUEOPSEUM, season |-> ALSUEOPSEUM]

\* a mutant of the row loop of enrich_sales_data: a row whose code does not parse
\* inherits the columns decoded for the row before it
enrich_sales_data_stale(d, t) ==
    [i \in 1..Len(t) |->
        [row |-> t[i],
         dec |-> IF parse_item_code(t[i].code).t # "dict" /\ i > 1
                 THEN DecodeRow(d, t[i - 1]) ELSE DecodeRow(d, t[i])]]

\* enrich_sales_data: the rows of the copy of the table, each with its decoded columns
enrich_sales_data(d, t) ==
    [i \in 1..Len(t) |-> [row |-> t[i], dec |-> DecodeRow(d, t[i])]]


-----------------------------------------------------------------------------
(* Fiber names *)

\* the canonical fiber names
COTTON == <<"C","O","T","T","O","N">>
POLYESTER == <<"P","O","L","Y","E","S","T","E","R">>
NYLON == <<"N","Y","L","O","N">>
RAYON == <<"R","A","Y","O","N">>
WOOL == <<"W","O","O","L">>
ACRYLIC == <<"A","C","R","Y","L","I","C">>
SPANDEX == <<"S","P","A","N","D","E","X">>
POLYURETHANE == <<"P","O","L","Y","U","R","E","T","H","A","N","E">>

\* FIBER_ALIASES, in the order of the dict: canonical name, then its aliases
FIBER_ALIASES ==
    << [canon |-> COTTON,
         aliases |-> << COTTON,
                      <<"C","O">>,
                      <<"C","T">>,
                      <<"C","O","T","N","A">> >>],
       [canon |-> POLYESTER,
         aliases |-> << POLYESTER,
                      <<"P","E","S">>,
                      <<"P","E">>,
                      <<"P","L">> >>],
       [canon |-> NYLON,
         aliases |-> << NYLON,
                      <<"P","A">>,
                      <<"N">>,
                      <<"N","L">> >>],
       [canon |-> RAYON,
         aliases |-> << RAYON,
                      <<"V","I","S","C","O","S","E">>,
                      <<"V","I","S","C">>,
                      <<"V","I">>,
                      <<"L","Y","O","C","E","L","L">>,
                      <<"T","E","N","C","E","L">>,
                      <<"M","O","D","A","L">> >>],
       [canon |-> WOOL,
         aliases |-> << WOOL,
                      <<"W","L">> >>],
       [canon |-> ACRYLIC,
         aliases |-> << ACRYLIC,
                      <<"A","C">> >>],
       [canon |-> SPANDEX,
         aliases |-> << SPANDEX,
                      <<"E","L","A","S","T","A","N","E">>,
                      <<"E","L","A","S","T","I","N">>,
                      <<"E","L","A","S","T","I","N","E">>,
                      <<"P","U">>,
                      <<"S","P">>,
                      <<"L","Y","C","R","A">> >>],
       [canon |-> POLYURETHANE,
         aliases |-> << POLYURETHANE,
                      <<"P","U">> >>] >>

SYNTHETIC_SET == {POLYESTER, NYLON, ACRYLIC, POLYURETHANE}
NATURAL_SET == {COTTON, WOOL}
REGENERATED_SET == {RAYON}

UpperOf ==
    ( "a" :> "A" @@ "b" :> "B" @@ "c" :> "C" @@ "d" :> "D" @@ "e" :> "E" @@ "f" :> "F"
   @@ "g" :> "G" @@ "h" :> "H" @@ "i" :> "I" @@ "j" :> "J" @@ "k" :> "K" @@ "l" :> "L"
   @@ "m" :> "M" @@ "n" :> "N" @@ "o" :> "O" @@ "p" :> "P" @@ "q" :> "Q" @@ "r" :> "R"
   @@ "s" :> "S" @@ "t" :> "T" @@ "u" :> "U" @@ "v" :> "V" @@ "w" :> "W" @@ "x" :> "X"
   @@ "y" :> "Y" @@ "z" :> "Z" )

\* Python str.upper()
Upper(s) == [i \in 1..Len(s) |-> IF s[i] \in DOMAIN UpperOf THEN UpperOf[s[i]] ELSE s[i]]

\* re.sub(r"[\(\)\[\]\{\}]", " ", s)
BracketsToBlank(s) ==
    [i \in 1..Len(s) |-> IF s[i] \in {"(", ")", "[", "]", "{", "}"} THEN " " ELSE s[i]]

\* re.sub(r"\s+", " ", s): every run of blanks becomes one blank
RECURSIVE CollapseBlanks(_)
CollapseBlanks(s) ==
    IF s = <<>> THEN <<>>
    ELSE IF IsSpace(Head(s))
         THEN <<" ">> \o CollapseBlanks(LStrip(s))
         ELSE <<Head(s)>> \o CollapseBlanks(Tail(s))

\* Python "a in s" for text
Contains(s, a) ==
    \E i \in 1..(Len(s) - Len(a) + 1) : SubSeq(s, i, i + Len(a) - 1) = a

\* the (dict index, alias index) pairs in the order the two nested loops visit them
AliasBefore(p, q) == p[1] < q[1] \/ (p[1] = q[1] /\ p[2] < q[2])
AliasPairs ==
    UNION { { <<k, j>> : j \in 1..Len(FIBER_ALIASES[k].aliases) } : k \in 1..Len(FIBER_ALIASES) }
FirstPair(ps) == CHOOSE p \in ps : \A q \in ps : p = q \/ AliasBefore(p, q)

\* a mutant of _norm_fiber_name: the text is not upper-cased before the lookup
norm_fiber_name_noupper(name) ==
    IF name = <<>> THEN <<>>
    ELSE LET s == Strip(CollapseBlanks(BracketsToBlank(Strip(name))))
             exact == { p \in AliasPairs : s = FIBER_ALIASES[p[1]].aliases[p[2]] }
             part == { p \in AliasPairs : Contains(s, FIBER_ALIASES[p[1]].aliases[p[2]]) }
         IN IF exact # {} THEN FIBER_ALIASES[FirstPair(exact)[1]].canon
            ELSE IF part # {} THEN FIBER_ALIASES[FirstPair(part)[1]].canon
            ELSE s

\* _norm_fiber_name: the canonical name of the first alias equal to the cleaned
\* text, else of the first alias contained in it, else the cleaned text itself
norm_fiber_name(name) ==
    IF name = <<>> THEN <<>>
    ELSE LET s == Strip(CollapseBlanks(BracketsToBlank(Upper(Strip(name)))))
             exact == { p \in AliasPairs : s = FIBER_ALIASES[p[1]].aliases[p[2]] }
             part == { p \in AliasPairs : Contains(s, FIBER_ALIASES[p[1]].aliases[p[2]]) }
         IN IF exact # {} THEN FIBER_ALIASES[FirstPair(exact)[1]].canon
            ELSE IF part # {} THEN FIBER_ALIASES[FirstPair(part)[1]].canon
            ELSE s

-----------------------------------------------------------------------------
(* Blend parsing *)

IsSep(c) == c \in {"/", ",", "|"}

\* re.split(r"[/,|]+", s): the pieces between the separators
RECURSIVE SplitAcc(_, _)
SplitAcc(s, cur) ==
    IF s = <<>> THEN <<cur>>
    ELSE IF IsSep(Head(s)) THEN <<cur>> \o SplitAcc(Tail(s), <<>>)
    ELSE SplitAcc(Tail(s), Append(cur, Head(s)))

\* _split_tokens: the trimmed pieces that are not empty
split_tokens(s) ==
    LET pieces == SplitAcc(s, <<>>) IN
    SelectSeq([i \in 1..Len(pieces) |-> Strip(pieces[i])], LAMBDA x : x # <<>>)

IsDigit(c) == c \in {"0", "1", "2", "3", "4", "5", "6", "7", "8", "9"}
DigitVal(c) == CHOOSE k \in 0..9 : Digit(k) = c

\* the value of the longest run of digits at the start of s
RECURSIVE DigitsVal(_, _)
DigitsVal(s, acc) ==
    IF s # <<>> /\ IsDigit(Head(s)) THEN DigitsVal(Tail(s), acc * 10 + DigitVal(Head(s))) ELSE acc

\* re.findall(r"[-+]?\d*\.?\d+", r)[0] as a number, for text without a decimal
\* point: the first run of digits, negated when "-" stands right before it;
\* None when the text holds no digit
RECURSIVE FirstNumber(_)
FirstNumber(r) ==
    IF r = <<>> THEN None
    ELSE IF IsDigit(Head(r)) THEN Num(DigitsVal(r, 0))
    ELSE IF Head(r) \in {"-", "+"} /\ Len(r) >= 2 /\ IsDigit(r[2])
         THEN Num(IF Head(r) = "-" THEN -DigitsVal(Tail(r), 0) ELSE DigitsVal(Tail(r), 0))
    ELSE FirstNumber(Tail(r))

\* the loop over ratios: the numbers of the tokens that hold one, the others skipped
ratios_num(ratios) ==
    LET nums == [i \in 1..Len(ratios) |-> FirstNumber(ratios[i])]
        kept == SelectSeq(nums, LAMBDA x : x.t = "num")
    IN [i \in 1..Len(kept) |-> kept[i].n]

RECURSIVE Sum(_)
Sum(q) == IF q = <<>> THEN 0 ELSE Head(q) + Sum(Tail(q))

\* a mutant of parse_blend_components: a blend is discarded only on a negative sum
parse_blend_components_neg(bf, br) ==
    IF ~Truthy(bf) \/ ~Truthy(br) THEN <<>>
    ELSE LET fibers == split_tokens(PyStr(bf))
             nums == ratios_num(split_tokens(PyStr(br)))
             n == Min(Len(fibers), Len(nums))
         IN IF fibers = <<>> \/ nums = <<>> THEN <<>>
            ELSE IF Sum(SubSeq(nums, 1, n)) < 0 THEN <<>>
            ELSE [i \in 1..n |-> [fiber |-> norm_fiber_name(fibers[i]), ratio |-> nums[i]]]

\* parse_blend_components: the (normalized fiber, ratio) pairs of the blend
parse_blend_components(bf, br) ==
    IF ~Truthy(bf) \/ ~Truthy(br) THEN <<>>
    ELSE LET fibers == split_tokens(PyStr(bf))
             nums == ratios_num(split_tokens(PyStr(br)))
             n == Min(Len(fibers), Len(nums))
         IN IF fibers = <<>> \/ nums = <<>> THEN <<>>
            ELSE IF Sum(SubSeq(nums, 1, n)) <= 0 THEN <<>>
            ELSE [i \in 1..n |-> [fiber |-> norm_fiber_name(fibers[i]), ratio |-> nums[i]]]

\* round(num / den, 2) in hundredths, for den > 0: to the nearest, a tie to even
Round2(num, den) ==
    LET n == num * 100
        q == n \div den
        r == n % den
    IN IF 2 * r < den THEN q
       ELSE IF 2 * r > den THEN q + 1
       ELSE IF q % 2 = 0 THEN q ELSE q + 1

\* a mutant of ShareSums: polyurethane is left out of the spandex share
RECURSIVE ShareSums_spandex_only(_, _)
ShareSums_spandex_only(cs, acc) ==
    IF cs = <<>> THEN acc
    ELSE LET f == Head(cs).fiber
             p == Head(cs).ratio * 100
         IN ShareSums_spandex_only(Tail(cs),
               [cotton      |-> acc.cotton + (IF f \in NATURAL_SET /\ f = COTTON THEN p ELSE 0),
                synthetic   |-> acc.synthetic + (IF f \in SYNTHETIC_SET THEN p ELSE 0),
                regenerated |-> acc.regenerated + (IF f \in REGENERATED_SET THEN p ELSE 0),
                spandex     |-> acc.spandex + (IF f \in {SPANDEX} THEN p ELSE 0)])

\* the loop of derive_blend_features over the components: the four sums of
\* p = r / total * 100, each kept as the exact numerator over total
RECURSIVE ShareSums(_, _)
ShareSums(cs, acc) ==
    IF cs = <<>> THEN acc
    ELSE LET f == Head(cs).fiber
             p == Head(cs).ratio * 100
         IN ShareSums(Tail(cs),
               [cotton      |-> acc.cotton + (IF f \in NATURAL_SET /\ f = COTTON THEN p ELSE 0),
                synthetic   |-> acc.synthetic + (IF f \in SYNTHETIC_SET THEN p ELSE 0),
                regenerated |-> acc.regenerated + (IF f \in REGENERATED_SET THEN p ELSE 0),
                spandex     |-> acc.spandex + (IF f \in {SPANDEX, POLYURETHANE} THEN p ELSE 0)])

NoFeatures(n) ==
    [pct_cotton |-> None, pct_synthetic |-> None, pct_regenerated |-> None,
     pct_spandex |-> None, n_fibers |-> n]

\* derive_blend_features of the components cs; a share is a number of hundredths
\* of a percent (3333 for 33.33)
FeaturesOf(cs) ==
    IF cs = <<>> THEN NoFeatures(None)
    ELSE LET total == Sum([i \in 1..Len(cs) |-> cs[i].ratio]) IN
         IF total <= 0 THEN NoFeatures(Num(Len(cs)))
         ELSE LET z == ShareSums(cs, [cotton |-> 0, synthetic |-> 0, regenerated |-> 0, spandex |-> 0])
              IN [pct_cotton      |-> Num(Round2(z.cotton, total)),
                  pct_synthetic   |-> Num(Round2(z.synthetic, total)),
                  pct_regenerated |-> Num(Round2(z.regenerated, total)),
                  pct_spandex     |-> Num(Round2(z.spandex, total)),
                  n_fibers        |-> Num(Len(cs))]

derive_blend_features(bf, br) == FeaturesOf(parse_blend_components(bf, br))

-----------------------------------------------------------------------------
(* Rows of the sales table.  The columns of SALES_COLS, in English:        *)
(* code = 품번, color = 컬러, price = 가격, mfg = 제조방식,                  *)
(* material = 소재명, fit = 핏, length = 기장, qty = 당시즌판매수량,          *)
(* amt = 당시즌판매액.                                                      *)

SalesRow(code, color, material, qty) ==
    [code |-> code, color |-> color, price |-> Num(149000),
     mfg |-> Str(<<"K","N","I","T">>), material |-> material,
     fit |-> Str(<<"R","E","G">>), length |-> Str(<<"R","E","G">>),
     qty |-> qty, amt |-> Num(0)]

-----------------------------------------------------------------------------
(* The decoder applied to one-row tables: the inputs *)

\* nine-character codes: brand, gender, item (2), sequence (3), year, season
FullCodes ==
    { <<"T", g, it[1], it[2], "1", "0", "9", y, se>> :
        g \in {"M", "W", "U", "X", "m"},
        it \in {<<"P","Q">>, <<"P","T">>, <<"B","R">>, <<"D","J">>, <<"Q","P">>},
        y \in {"3", "6", "9"},
        se \in {"1", "6", "2"} }

\* their prefixes, a tenth character, and blanks around them
DecodeTexts ==
    LET cut == { SubSeq(f, 1, n) : f \in FullCodes, n \in {0, 3, 7, 8, 9} }
        ten == { f \o <<"S">> : f \in FullCodes }
        pad == { <<" ">> \o c \o <<" ">> : c \in { SubSeq(f, 1, n) : f \in FullCodes, n \in {7, 8, 9} } }
    IN cut \cup ten \cup pad \cup { <<" ", " ">> }

DecodeCells == { Str(c) : c \in DecodeTexts } \cup { None, Num(0), Num(12345678) }

NotCalled == [t |-> "pending"]

InitPure ==
    /\ lookup = LookupTables
    /\ decoded_log = {}
    /\ blend_fibers = None /\ blend_ratio = None
    /\ comps = NotCalled /\ feats = NotCalled
    /\ fiber_name = <<>> /\ fiber_norm = NotCalled
    /\ supabase = "None"
    /\ sales_data = <<>> /\ material_data = <<>>
    /\ cache_sales = NotCalled /\ cache_material = NotCalled
    /\ session_sales = <<>> /\ session_material = <<>>
    /\ last_call = NotCalled
    /\ home_chat = <<>> /\ posts = <<>> /\ shown = NotCalled /\ inputs = NotCalled
    /\ replacing = <<>>
    /\ history = <<>> /\ rendered = NotCalled
    /\ material_name = None /\ mat_df = <<>> /\ mat_row = NotCalled

InitDecode ==
    /\ InitPure
    /\ df \in { <<SalesRow(c, Str(<<"B","K","S">>), Str(<<"H","S">>), Num(15))>> : c \in DecodeCells }
    /\ enriched = NotCalled

\* a call enrich_sales_data(df); the log keeps what each style code decoded to
Enrich ==
    /\ enriched' = [t |-> "df", rows |-> enrich_sales_data(lookup, df)]
    /\ decoded_log' = decoded_log \cup
           { <<r.row.code, r.dec>> : r \in { enriched'.rows[i] : i \in 1..Len(df) } }
    /\ UNCHANGED <<lookup, df, blendVars, fiberVars, dbVars, replacing, chatVars, matVars, uiVars>>

NextDecode == Enrich

SpecDecode == InitDecode /\ [][NextDecode]_vars

EnrichedRows == IF enriched.t = "df" THEN { enriched.rows[i] : i \in 1..Len(enriched.rows) } ELSE {}

\* the code of a row as the decoder sees it: absent, or its trimmed text
CodeAbsent(c) == c = None \/ c = Str(<<>>) \/ c = Num(0)
CodeText(c) == Strip(PyStr(c))
ShortCode(c) == CodeAbsent(c) \/ Len(CodeText(c)) < 8

\* lookup of the text k in the table m, with the value for a missing key
LookupOr(m, k, unknown) == IF k \in DOMAIN m THEN m[k] ELSE unknown

\* C4 as stated: an absent or short code decodes to "unknown" in all five columns
C4_Original ==
    \A r \in EnrichedRows :
        ShortCode(r.row.code) =>
            /\ r.dec.gender = ALSUEOPSEUM /\ r.dec.item_name = ALSUEOPSEUM
            /\ r.dec.category = ALSUEOPSEUM
            /\ r.dec.year = ALSUEOPSEUM /\ r.dec.season = ALSUEOPSEUM

\* C4 amended: for an absent or short code every call returns a row for the row
\* given, with gender, item name, year and season "unknown" (알수없음) and the
\* category "other" (기타), the value that BR and SL items also have
C4_ShortCodeUnknown ==
    /\ enriched.t = "df" => Len(enriched.rows) = Len(df)
    /\ \A r \in EnrichedRows :
        ShortCode(r.row.code) =>
            /\ r.dec.gender = ALSUEOPSEUM /\ r.dec.item_name = ALSUEOPSEUM
            /\ r.dec.category = GITA
            /\ r.dec.year = ALSUEOPSEUM /\ r.dec.season = ALSUEOPSEUM

\* a code of seven characters between blanks (eight and more before trimming) was decoded
C4_Witness ==
    \E r \in EnrichedRows :
        /\ r.row.code.t = "str" /\ Len(r.row.code.s) >= 8 /\ Len(CodeText(r.row.code)) = 7
        /\ r.dec.category = GITA

\* C5 as stated: each column is the lookup of its characters, "unknown" when the
\* character is missing or no key
C5_Original ==
    \A r \in EnrichedRows :
        ~ShortCode(r.row.code) =>
            LET c == CodeText(r.row.code) IN
            /\ r.dec.gender = LookupOr(GENDER_MAPPING, <<c[2]>>, ALSUEOPSEUM)
            /\ r.dec.item_name = LookupOr(ITEM_MAPPING, <<c[3], c[4]>>, ALSUEOPSEUM)
            /\ r.dec.category = LookupOr(CATEGORY_MAPPING, <<c[3], c[4]>>, ALSUEOPSEUM)
            /\ r.dec.year = LookupOr(YEAR_MAPPING, <<c[8]>>, ALSUEOPSEUM)
            /\ r.dec.season = IF Len(c) >= 9
                              THEN LookupOr(SEASON_MAPPING, <<c[9]>>, ALSUEOPSEUM)
                              ELSE ALSUEOPSEUM

\* C5 amended: for a trimmed code of eight characters or more, gender is the lookup
\* of character 2, item name and category of characters 3-4, year of character 8,
\* season of character 9; a missing or unlisted character gives "unknown" (알수없음)
\* for that column alone, except that the category of an unlisted item is "other" (기타)
C5_DecodeByPosition ==
    \A r \in EnrichedRows :
        ~ShortCode(r.row.code) =>
            LET c == CodeText(r.row.code) IN
            /\ r.dec.gender = LookupOr(GENDER_MAPPING, <<c[2]>>, ALSUEOPSEUM)
            /\ r.dec.item_name = LookupOr(ITEM_MAPPING, <<c[3], c[4]>>, ALSUEOPSEUM)
            /\ r.dec.category = LookupOr(CATEGORY_MAPPING, <<c[3], c[4]>>, GITA)
            /\ r.dec.year = LookupOr(YEAR_MAPPING, <<c[8]>>, ALSUEOPSEUM)
            /\ r.dec.season = IF Len(c) >= 9
                              THEN LookupOr(SEASON_MAPPING, <<c[9]>>, ALSUEOPSEUM)
                              ELSE ALSUEOPSEUM

\* a code of exactly eight characters with an unlisted item was decoded: gender and
\* year are known, item name and season are not
C5_Witness ==
    \E r \in EnrichedRows :
        /\ r.row.code.t = "str" /\ Len(CodeText(r.row.code)) = 8
        /\ r.dec.gender = "yeoseong" /\ r.dec.year = "2026"
        /\ r.dec.item_name = ALSUEOPSEUM /\ r.dec.season = ALSUEOPSEUM

-----------------------------------------------------------------------------
(* _norm_fiber_name applied to the aliases of the table, as written, in lower
   case, between blanks and in brackets *)

Lower(s) ==
    [i \in 1..Len(s) |->
        IF \E c \in DOMAIN UpperOf : UpperOf[c] = s[i]
        THEN CHOOSE c \in DOMAIN UpperOf : UpperOf[c] = s[i] ELSE s[i]]

AliasTexts == { FIBER_ALIASES[p[1]].aliases[p[2]] : p \in AliasPairs }

FiberInputs ==
    UNION { { a, Lower(a), <<" ">> \o a \o <<" ", " ">>, <<"(">> \o Lower(a) \o <<")">>,
              <<Lower(a)[1]>> \o Tail(a) } : a \in AliasTexts }
    \cup { <<>>, <<"L","I","N","E","N">>, <<"S","I","L","K">>,
           <<"C","O"," ","(","B","C","I",")">> }

InitFiber ==
    /\ InitPure
    /\ df = <<>> /\ enriched = NotCalled

\* a call _norm_fiber_name(name)
NormFiber ==
    /\ \E name \in FiberInputs : fiber_name' = name
    /\ fiber_norm' = [t |-> "str", s |-> norm_fiber_name(fiber_name')]
    /\ UNCHANGED <<lookup, decodeVars, blendVars, dbVars, replacing, chatVars, matVars, uiVars>>

NextFiber == NormFiber

SpecFiber == InitFiber /\ [][NextFiber]_vars

\* the text of the argument with the blanks, the brackets and the case put aside
AsWritten(name) == Strip(CollapseBlanks(BracketsToBlank(Upper(Strip(name)))))

\* C9 as stated: an alias listed under a canonical fiber, in any case and between
\* blanks, is mapped to that canonical fiber, and a canonical name to itself
C9_AliasToCanon ==
    fiber_norm.t = "str" =>
        \A p \in AliasPairs :
            AsWritten(fiber_name) = FIBER_ALIASES[p[1]].aliases[p[2]]
                => fiber_norm.s = FIBER_ALIASES[p[1]].canon

-----------------------------------------------------------------------------
(* parse_blend_components and derive_blend_features applied to blends *)

\* sequences of at most n elements of S
SeqsUpTo(S, n) == UNION { [1..k -> S] : k \in 0..n }

RECURSIVE Join(_, _)
Join(parts, sep) ==
    IF parts = <<>> THEN <<>>
    ELSE IF Len(parts) = 1 THEN parts[1]
    ELSE parts[1] \o sep \o Join(Tail(parts), sep)

FiberParts == { <<"C","O">>, <<"p","e">>, <<"P","U">>, POLYURETHANE, <<"M","O","D","A","L">> }
RatioParts == { <<"5","0">>, <<"3","0","%">>, <<"0">>, <<"-","5">>, <<"x">> }

FiberTexts ==
    { Join(ps, sep) : ps \in SeqsUpTo(FiberParts, MaxFiberParts), sep \in { <<"/">>, <<",">> } }
RatioTexts == { Join(ps, <<" ", "/", " ">>) : ps \in SeqsUpTo(RatioParts, MaxRatioParts) }

InitBlend ==
    /\ lookup = LookupTables
    /\ df = <<>> /\ enriched = NotCalled /\ decoded_log = {}
    /\ blend_fibers \in { Str(f) : f \in FiberTexts } \cup { None }
    /\ blend_ratio \in { Str(r) : r \in RatioTexts } \cup { None }
    /\ comps = NotCalled /\ feats = NotCalled
    /\ fiber_name = <<>> /\ fiber_norm = NotCalled
    /\ supabase = "None"
    /\ sales_data = <<>> /\ material_data = <<>>
    /\ cache_sales = NotCalled /\ cache_material = NotCalled
    /\ session_sales = <<>> /\ session_material = <<>>
    /\ last_call = NotCalled
    /\ home_chat = <<>> /\ posts = <<>> /\ shown = NotCalled /\ inputs = NotCalled
    /\ replacing = <<>>
    /\ history = <<>> /\ rendered = NotCalled
    /\ material_name = None /\ mat_df = <<>> /\ mat_row = NotCalled

\* a call derive_blend_features(blend_fibers, blend_ratio), with the components
\* its call of parse_blend_components returned
DeriveBlend ==
    /\ comps' = [t |-> "list", items |-> parse_blend_components(blend_fibers, blend_ratio)]
    /\ feats' = [t |-> "dict", f |-> derive_blend_features(blend_fibers, blend_ratio)]
    /\ UNCHANGED <<lookup, decodeVars, blend_fibers, blend_ratio, fiberVars, dbVars, replacing, chatVars, matVars, uiVars>>

NextBlend == DeriveBlend

SpecBlend == InitBlend /\ [][NextBlend]_vars

\* the non-empty parts of a text between "/" (blanks around a part put aside)
RECURSIVE SlashParts(_, _)
SlashParts(s, cur) ==
    IF s = <<>> THEN (IF Strip(cur) = <<>> THEN <<>> ELSE <<Strip(cur)>>)
    ELSE IF Head(s) = "/"
         THEN (IF Strip(cur) = <<>> THEN <<>> ELSE <<Strip(cur)>>) \o SlashParts(Tail(s), <<>>)
         ELSE SlashParts(Tail(s), Append(cur, Head(s)))

TextOf(c) == IF c.t = "str" THEN c.s ELSE <<>>
FiberTokens == SlashParts(TextOf(blend_fibers), <<>>)
RatioTokens == SlashParts(TextOf(blend_ratio), <<>>)

\* C6 as stated, for the blends that are not discarded: the components are the
\* first min(#fiber tokens, #ratio tokens) tokens, the i-th fiber token paired
\* with the number of the i-th ratio token
C6_PairsByPosition ==
    (comps.t = "list" /\ comps.items # <<>>) =>
        /\ Len(comps.items) = Min(Len(FiberTokens), Len(RatioTokens))
        /\ \A i \in 1..Len(comps.items) :
            /\ comps.items[i].fiber = norm_fiber_name(FiberTokens[i])
            /\ FirstNumber(RatioTokens[i]) = Num(comps.items[i].ratio)

\* the ratios of the blend: the numbers paired with a fiber token
PairedRatios ==
    LET fibers == split_tokens(TextOf(blend_fibers))
        nums == ratios_num(split_tokens(TextOf(blend_ratio)))
    IN SubSeq(nums, 1, Min(Len(fibers), Len(nums)))

AllNone(f) ==
    /\ f.pct_cotton = None /\ f.pct_synthetic = None /\ f.pct_regenerated = None
    /\ f.pct_spandex = None /\ f.n_fibers = None

ClassSum(items, class) ==
    Sum([i \in 1..Len(items) |-> IF items[i].fiber \in class THEN items[i].ratio ELSE 0])
TotalSum(items) == Sum([i \in 1..Len(items) |-> items[i].ratio])

CottonClass == {COTTON}
SyntheticClass == {POLYESTER, NYLON, ACRYLIC, POLYURETHANE}
RegeneratedClass == {RAYON}
SpandexClass == {SPANDEX, POLYURETHANE}

\* share (in hundredths of a percent) is exactly 100 x part / total
ExactShare(share, part, total) == share.t = "num" /\ share.n * total = 100 * 100 * part

\* share is 100 x part / total rounded to two decimals (a tie cannot be told from
\* its neighbours here: the distance is at most half a hundredth)
RoundedShare(share, part, total) ==
    /\ share.t = "num"
    /\ 2 * (share.n * total - 10000 * part) <= total
    /\ 2 * (10000 * part - share.n * total) <= total

\* C8 as stated: each share is 100 x (class sum) / (sum of all ratios)
C8_Original ==
    (comps.t = "list" /\ feats.t = "dict" /\ comps.items # <<>>) =>
        LET it == comps.items
            t == TotalSum(it)
        IN /\ ExactShare(feats.f.pct_cotton, ClassSum(it, CottonClass), t)
           /\ ExactShare(feats.f.pct_synthetic, ClassSum(it, SyntheticClass), t)
           /\ ExactShare(feats.f.pct_regenerated, ClassSum(it, RegeneratedClass), t)
           /\ ExactShare(feats.f.pct_spandex, ClassSum(it, SpandexClass), t)
           /\ feats.f.n_fibers = Num(Len(it))

\* C8 amended: for a blend that is not discarded each share is
\* 100 x (class sum) / (sum of all ratios) rounded to two decimals, and n_fibers
\* is the number of components
C8_SharesRounded ==
    (comps.t = "list" /\ feats.t = "dict" /\ comps.items # <<>>) =>
        LET it == comps.items
            t == TotalSum(it)
        IN /\ t > 0
           /\ RoundedShare(feats.f.pct_cotton, ClassSum(it, CottonClass), t)
           /\ RoundedShare(feats.f.pct_synthetic, ClassSum(it, SyntheticClass), t)
           /\ RoundedShare(feats.f.pct_regenerated, ClassSum(it, RegeneratedClass), t)
           /\ RoundedShare(feats.f.pct_spandex, ClassSum(it, SpandexClass), t)
           /\ feats.f.n_fibers = Num(Len(it))

\* a blend of cotton and polyurethane with ratios 50 and 30 was derived: 62.5 percent
\* cotton, 37.5 percent synthetic and 37.5 percent spandex
C8_Witness ==
    /\ comps.t = "list" /\ feats.t = "dict"
    /\ Len(comps.items) = 2
    /\ comps.items[1] = [fiber |-> COTTON, ratio |-> 50]
    /\ comps.items[2] = [fiber |-> POLYURETHANE, ratio |-> 30]
    /\ feats.f.pct_cotton = Num(6250) /\ feats.f.pct_synthetic = Num(3750)
    /\ feats.f.pct_spandex = Num(3750) /\ feats.f.pct_regenerated = Num(0)

-----------------------------------------------------------------------------
(* Normalisation of uploaded and loaded rows *)

UNKNOWN == <<"U","N","K","N","O","W","N">>
UNKNOWN_MATERIAL == UNKNOWN \o <<"_","M","A","T","E","R","I","A","L">>

\* .astype(str).replace(["None", "nan"], ""), then strip
CleanText(c) ==
    LET s == PyStr(c) IN
    IF s \in { <<"N","o","n","e">>, <<"n","a","n">> } THEN <<>> ELSE Strip(s)

\* fill_required_text for one cell: the cleaned text, the default when it is empty
fill_required_text(c, default) ==
    LET s == CleanText(c) IN Str(IF s = <<>> THEN default ELSE s)

\* pd.to_numeric(errors="coerce") of one cell: a number, or None (NaN) when the
\* cell is absent or is text that is no number
to_numeric(c) ==
    CASE c.t = "num"  -> c
      [] c.t = "none" -> None
      [] c.t = "str"  -> IF c.s # <<>> /\ \A i \in 1..Len(c.s) : IsDigit(c.s[i])
                         THEN Num(DigitsVal(c.s, 0)) ELSE None

\* .fillna(0)
fillna0(c) == IF c.t = "none" THEN Num(0) ELSE c

\* the record save_sales_data, replace_sales_data and load_sales_data make of a row
NormSalesRow(r) ==
    [code     |-> fill_required_text(r.code, UNKNOWN),
     color    |-> fill_required_text(r.color, UNKNOWN),
     price    |-> fillna0(to_numeric(r.price)),
     mfg      |-> fill_required_text(r.mfg, UNKNOWN),
     material |-> fill_required_text(r.material, UNKNOWN),
     fit      |-> fill_required_text(r.fit, UNKNOWN),
     length   |-> fill_required_text(r.length, UNKNOWN),
     qty      |-> fillna0(to_numeric(r.qty)),
     amt      |-> fillna0(to_numeric(r.amt))]

\* a mutant of SalesRecords: rows with the style code and color of an earlier row
\* of the upload are left out
SalesRecords_unique(t) ==
    LET n == [i \in 1..Len(t) |-> NormSalesRow(t[i])]
        keep == { i \in 1..Len(n) :
                    ~\E j \in 1..(i - 1) : n[j].code = n[i].code /\ n[j].color = n[i].color }
        F[i \in 0..Len(n)] ==
            IF i = 0 THEN <<>> ELSE IF i \in keep THEN Append(F[i - 1], n[i]) ELSE F[i - 1]
    IN F[Len(n)]

\* df[SALES_COLS].to_dict("records") after the normalisation: one record per row
SalesRecords(t) == [i \in 1..Len(t) |-> NormSalesRow(t[i])]

\* Rows of the material table.  The columns of MATERIAL_COLS, in English:
\* name = 소재명, supplier = 소재업체, blend_fibers = 혼용원단, blend_ratio = 혼용율,
\* weight = 중량, org = 조직, ct = "CT %", sf = "SF %", fb = "FB-LV".
MaterialRow(name, fibers, ratio, weight) ==
    [name |-> name, supplier |-> Str(<<"B","F">>), blend_fibers |-> fibers,
     blend_ratio |-> ratio, weight |-> weight, org |-> None,
     ct |-> Num(0), sf |-> Num(100), fb |-> Num(3)]

\* the record save_material_data, replace_material_data make of a row
NormMaterialRow(r) ==
    [name         |-> fill_required_text(r.name, UNKNOWN_MATERIAL),
     supplier     |-> Str(CleanText(r.supplier)),
     blend_fibers |-> Str(CleanText(r.blend_fibers)),
     blend_ratio  |-> Str(CleanText(r.blend_ratio)),
     weight       |-> to_numeric(r.weight),
     org          |-> Str(CleanText(r.org)),
     ct           |-> to_numeric(r.ct),
     sf           |-> to_numeric(r.sf),
     fb           |-> to_numeric(r.fb)]

MaterialRecords(t) == [i \in 1..Len(t) |-> NormMaterialRow(t[i])]

\* the rows load_material_data returns: the name is cleaned but gets no default
LoadedMaterialRow(r) == [NormMaterialRow(r) EXCEPT !.name = Str(CleanText(r.name))]

-----------------------------------------------------------------------------
(* Database functions.  Each yields a record: its result (ret), the rows of the
   table after the call (table), whether st.cache_data.clear() was reached
   (cleared), the database calls it issued in order (calls), the message it
   rendered (msg) and whether an exception leaves it (exc).  The flags say which
   of its database calls raises. *)

Returned(ret, table, cleared, calls, msg) ==
    [ret |-> ret, table |-> table, cleared |-> cleared, calls |-> calls, msg |-> msg,
     exc |-> FALSE]

\* an exception raised inside the try block after the calls were issued
Raises(table, calls) ==
    [ret |-> FALSE, table |-> table, cleared |-> FALSE, calls |-> calls, msg |-> "none",
     exc |-> TRUE]

\* a mutant of except_Exception: the handler is missing and the exception leaves
\* the function
except_Exception_reraise(r, value) == r

\* except Exception as e: st.error(...); return value
except_Exception(r, value) ==
    IF r.exc THEN [r EXCEPT !.exc = FALSE, !.ret = value, !.msg = "error"] ELSE r

\* a mutant of SaveData: a raising insert is issued a second time
SaveData_retry(sb, table, records, insert_raises) ==
    IF sb = "None" THEN Returned(FALSE, table, FALSE, <<>>, "error")
    ELSE except_Exception(
           IF records = <<>> THEN Returned(FALSE, table, FALSE, <<>>, "warning")
           ELSE IF insert_raises THEN Raises(table, <<"insert", "insert">>)
           ELSE Returned(TRUE, table \o records, TRUE, <<"insert">>, "none"),
           FALSE)

\* save_sales_data / save_material_data: records is the normalised upload
SaveData(sb, table, records, insert_raises) ==
    IF sb = "None" THEN Returned(FALSE, table, FALSE, <<>>, "error")
    ELSE except_Exception(
           IF records = <<>> THEN Returned(FALSE, table, FALSE, <<>>, "warning")
           ELSE IF insert_raises THEN Raises(table, <<"insert">>)
           ELSE Returned(TRUE, table \o records, TRUE, <<"insert">>, "none"),
           FALSE)

save_sales_data(sb, table, new_df, insert_raises) ==
    SaveData(sb, table, SalesRecords(new_df), insert_raises)

save_material_data(sb, table, new_df, insert_raises) ==
    SaveData(sb, table, MaterialRecords(new_df), insert_raises)

\* a mutant of ReplaceData: the rows of the table are not deleted
ReplaceData_keep(sb, table, records, delete_raises, insert_raises) ==
    IF sb = "None" THEN Returned(FALSE, table, FALSE, <<>>, "error")
    ELSE except_Exception(
           IF delete_raises THEN Raises(table, <<"delete">>)
           ELSE IF records = <<>> THEN Returned(FALSE, table, FALSE, <<"delete">>, "warning")
           ELSE IF insert_raises THEN Raises(table, <<"delete", "insert">>)
           ELSE Returned(TRUE, table \o records, TRUE, <<"delete", "insert">>, "none"),
           FALSE)

\* replace_sales_data / replace_material_data: delete every row, then insert
ReplaceData(sb, table, records, delete_raises, insert_raises) ==
    IF sb = "None" THEN Returned(FALSE, table, FALSE, <<>>, "error")
    ELSE except_Exception(
           IF delete_raises THEN Raises(table, <<"delete">>)
           ELSE IF records = <<>> THEN Returned(FALSE, <<>>, FALSE, <<"delete">>, "warning")
           ELSE IF insert_raises THEN Raises(<<>>, <<"delete", "insert">>)
           ELSE Returned(TRUE, records, TRUE, <<"delete", "insert">>, "none"),
           FALSE)

replace_sales_data(sb, table, df_upload, delete_raises, insert_raises) ==
    ReplaceData(sb, table, SalesRecords(df_upload), delete_raises, insert_raises)

replace_material_data(sb, table, df_upload, delete_raises, insert_raises) ==
    ReplaceData(sb, table, MaterialRecords(df_upload), delete_raises, insert_raises)

\* delete_all_sales_data / delete_all_material_data
delete_all_data(sb, table, delete_raises) ==
    IF sb = "None" THEN Returned(FALSE, table, FALSE, <<>>, "none")
    ELSE except_Exception(
           IF delete_raises THEN Raises(table, <<"delete">>)
           ELSE Returned(TRUE, <<>>, TRUE, <<"delete">>, "none"),
           FALSE)

\* a mutant of LoadData: the query is issued without looking at the client
LoadData_noguard(sb, table, rows, select_raises) ==
    except_Exception(
        IF select_raises \/ sb = "None" THEN Raises(table, <<"select">>)
        ELSE Returned(rows, table, FALSE, <<"select">>, "none"),
        <<>>)

\* the body of load_sales_data / load_material_data: rows is what the body makes
\* of the rows the query returns; the result is an empty table with the template
\* columns when there is no client or the query raises
LoadData(sb, table, rows, select_raises) ==
    IF sb = "None" THEN Returned(<<>>, table, FALSE, <<>>, "none")
    ELSE except_Exception(
           IF select_raises THEN Raises(table, <<"select">>)
           ELSE Returned(rows, table, FALSE, <<"select">>, "none"),
           <<>>)

load_sales_data(sb, table, select_raises) ==
    LoadData(sb, table, SalesRecords(table), select_raises)

load_material_data(sb, table, select_raises) ==
    LoadData(sb, table, [i \in 1..Len(table) |-> LoadedMaterialRow(table[i])], select_raises)

QuerySales(sb, table, select_raises) == load_sales_data(sb, table, select_raises).ret

QueryMaterial(sb, table, select_raises) == load_material_data(sb, table, select_raises).ret

\* @st.cache_data: the cached table when there is one, else the body's result
Cached(cache, fresh) == IF cache.t = "df" THEN cache.rows ELSE fresh

-----------------------------------------------------------------------------
(* The data actions of a session on the hosted database *)

TWPQ10953 == <<"T","W","P","Q","1","0","9","5","3">>
BKS == <<"B","K","S">>
HS17 == <<"H","S","-","1","7">>

\* rows of uploaded sheets: a clean row, and a row with empty cells, blanks around
\* the color and a quantity that is no number
SalesUploadRows ==
    { SalesRow(Str(TWPQ10953), Str(BKS), Str(HS17), Num(15)),
      SalesRow(None, Str(<<" ">> \o BKS \o <<" ">>), Str(<<"n","a","n">>), Str(<<"x">>)) }

MaterialUploadRows ==
    { MaterialRow(Str(HS17), Str(<<"C","O","/","P","U">>), Str(<<"5","0","/","5","0">>), Num(300)),
      MaterialRow(None, None, None, Str(<<"x">>)) }

SalesUploads == SeqsUpTo(SalesUploadRows, MaxUpload)
MaterialUploads == SeqsUpTo(MaterialUploadRows, MaxUpload)

\* the material tables a session may find when it starts
MaterialTables ==
    { <<>>, MaterialRecords(<<MaterialRow(Str(HS17), Str(<<"C","O","/","P","U">>),
                                         Str(<<"5","0","/","5","0">>), Num(300))>>) }

Miss == NotCalled
Hit(rows) == [t |-> "df", rows |-> rows]
Call(fn, arg, r) ==
    [t |-> "call", fn |-> fn, arg |-> arg, ret |-> r.ret, calls |-> r.calls, exc |-> r.exc,
     msg |-> r.msg]

\* st.success / st.warning / st.error, and the exception page of an uncaught exception
Msg(level) == [t |-> "msg", level |-> level]
Uncaught == [t |-> "exception"]

\* what a handler renders after a database function returned r
ShownAfter(r) ==
    IF r.exc THEN Uncaught ELSE IF r.ret THEN Msg("success") ELSE Msg(r.msg)

pureVars == <<lookup, decodeVars, blendVars, fiberVars>>

\* the database call of a handler that raises: none, or its delete, its insert or
\* its select (a handler makes no further call after one has raised)
Faults == {"none", "delete", "insert", "select"}

\* the state after the first run of the script: both tables loaded (and cached)
\* into the session state
Init ==
    /\ lookup = LookupTables
    /\ df = <<>> /\ enriched = NotCalled /\ decoded_log = {}
    /\ blend_fibers = None /\ blend_ratio = None
    /\ comps = NotCalled /\ feats = NotCalled
    /\ fiber_name = <<>> /\ fiber_norm = NotCalled
    /\ supabase \in {"client", "None"}
    /\ sales_data = <<>>
    /\ material_data \in MaterialTables
    /\ session_sales = QuerySales(supabase, sales_data, FALSE)
    /\ session_material = QueryMaterial(supabase, material_data, FALSE)
    /\ cache_sales = Hit(session_sales) /\ cache_material = Hit(session_material)
    /\ last_call = NotCalled
    /\ home_chat = <<>> /\ posts = <<>> /\ shown = NotCalled /\ inputs = NotCalled
    /\ replacing = <<>>
    /\ history = <<>> /\ rendered = NotCalled
    /\ material_name = None /\ mat_df = <<>> /\ mat_row = NotCalled

\* what a handler does after a sales function returned r: on True the session
\* reloads the table (the cache was cleared, so the query runs), then reruns
AfterSalesCall(r, fault) ==
    /\ sales_data' = r.table
    /\ IF r.ret
       THEN LET loaded == Cached(Miss, QuerySales(supabase, r.table, fault = "select")) IN
            /\ session_sales' = loaded
            /\ cache_sales' = Hit(loaded)
            /\ cache_material' = Miss
       ELSE /\ UNCHANGED <<session_sales, cache_sales>>
            /\ cache_material' = IF r.cleared THEN Miss ELSE cache_material
    /\ shown' = ShownAfter(r) /\ posts' = <<>>
    /\ UNCHANGED <<supabase, material_data, session_material, pureVars, replacing, chatVars, matVars, home_chat>>

AfterMaterialCall(r, fault) ==
    /\ material_data' = r.table
    /\ IF r.ret
       THEN LET loaded == Cached(Miss, QueryMaterial(supabase, r.table, fault = "select")) IN
            /\ session_material' = loaded
            /\ cache_material' = Hit(loaded)
            /\ cache_sales' = Miss
       ELSE /\ UNCHANGED <<session_material, cache_material>>
            /\ cache_sales' = IF r.cleared THEN Miss ELSE cache_sales
    /\ shown' = ShownAfter(r) /\ posts' = <<>>
    /\ UNCHANGED <<supabase, sales_data, session_sales, pureVars, replacing, chatVars, matVars, home_chat>>

\* upload of a sales sheet, button "적용 (추가 Insert)"
UploadInsertSales ==
    \E u \in SalesUploads, fault \in Faults \ {"delete"} :
        /\ Len(sales_data) + Len(u) <= MaxRows
        /\ LET r == save_sales_data(supabase, sales_data, u, fault = "insert") IN
           /\ last_call' = Call("save_sales_data", u, r)
           /\ AfterSalesCall(r, fault)
           /\ UNCHANGED inputs

\* upload of a sales sheet, button "적용 (전체 교체)"
UploadReplaceSales ==
    \E u \in SalesUploads, fault \in Faults :
        /\ Len(u) <= MaxRows
        /\ LET r == replace_sales_data(supabase, sales_data, u, fault = "delete", fault = "insert") IN
           /\ last_call' = Call("replace_sales_data", u, r)
           /\ AfterSalesCall(r, fault)
           /\ UNCHANGED inputs

\* button "판매 데이터 전체 삭제"
DeleteAllSales ==
    \E fault \in Faults \ {"insert"} :
        LET r == delete_all_data(supabase, sales_data, fault = "delete") IN
        /\ last_call' = Call("delete_all_sales_data", <<>>, r)
        /\ AfterSalesCall(r, fault)
        /\ UNCHANGED inputs

\* upload of a material sheet, button "적용 (추가 Insert)"
UploadInsertMaterial ==
    \E u \in MaterialUploads, fault \in Faults \ {"delete"} :
        /\ Len(material_data) + Len(u) <= MaxRows
        /\ LET r == save_material_data(supabase, material_data, u, fault = "insert") IN
           /\ last_call' = Call("save_material_data", u, r)
           /\ AfterMaterialCall(r, fault)
           /\ UNCHANGED inputs

\* upload of a material sheet, button "적용 (전체 교체)"
UploadReplaceMaterial ==
    \E u \in MaterialUploads, fault \in Faults :
        /\ Len(u) <= MaxRows
        /\ LET r == replace_material_data(supabase, material_data, u, fault = "delete", fault = "insert") IN
           /\ last_call' = Call("replace_material_data", u, r)
           /\ AfterMaterialCall(r, fault)
           /\ UNCHANGED inputs

\* button "소재 데이터 전체 삭제"
DeleteAllMaterial ==
    \E fault \in Faults \ {"insert"} :
        LET r == delete_all_data(supabase, material_data, fault = "delete") IN
        /\ last_call' = Call("delete_all_material_data", <<>>, r)
        /\ AfterMaterialCall(r, fault)
        /\ UNCHANGED inputs

\* a new session: the script's first run fills the session state from the
\* cached loaders
NewSession ==
    \E fault \in {"none", "select"} :
        LET s == Cached(cache_sales, QuerySales(supabase, sales_data, fault = "select"))
            m == Cached(cache_material, QueryMaterial(supabase, material_data, fault = "select"))
        IN /\ session_sales' = s /\ cache_sales' = Hit(s)
           /\ session_material' = m /\ cache_material' = Hit(m)
           /\ last_call' = NotCalled
           /\ home_chat' = <<>> /\ posts' = <<>> /\ shown' = NotCalled /\ inputs' = NotCalled
           /\ history' = <<>> /\ rendered' = NotCalled
           /\ UNCHANGED <<supabase, sales_data, material_data, pureVars, replacing, matVars>>

\* the ten minutes of the cache entries pass
CacheExpire ==
    /\ cache_sales' = Miss /\ cache_material' = Miss
    /\ last_call' = NotCalled
    /\ posts' = <<>> /\ shown' = NotCalled
    /\ UNCHANGED <<supabase, sales_data, material_data, session_sales, session_material,
                   pureVars, replacing, chatVars, matVars, home_chat, inputs>>

\* a dashboard, ranking or material page: enrich_sales_data of the session's table;
\* the enriched table is a local of the page, the log keeps what was decoded
Dashboard ==
    /\ session_sales # <<>>
    /\ LET e == enrich_sales_data(lookup, session_sales) IN
       decoded_log' = decoded_log \cup { <<e[i].row.code, e[i].dec>> : i \in 1..Len(e) }
    /\ last_call' = NotCalled
    /\ posts' = <<>> /\ shown' = NotCalled
    /\ UNCHANGED <<lookup, df, enriched, replacing, chatVars, matVars, blendVars, fiberVars, supabase, sales_data,
                   material_data, cache_sales, cache_material, session_sales,
                   session_material, home_chat, inputs>>

\* the sales actions of a session
NextSales ==
    \/ UploadInsertSales
    \/ UploadReplaceSales
    \/ DeleteAllSales
    \/ NewSession
    \/ CacheExpire

Spec == Init /\ [][NextSales]_vars

\* the sales actions and the pages that decode the style codes
NextEnrich == NextSales \/ Dashboard

\* a session with a database client and an empty material table
InitEnrich == Init /\ supabase = "client" /\ material_data = <<>>

SpecEnrich == InitEnrich /\ [][NextEnrich]_vars

\* the material actions of a session
NextMaterial ==
    \/ UploadInsertMaterial
    \/ UploadReplaceMaterial
    \/ DeleteAllMaterial
    \/ NewSession
    \/ CacheExpire

SpecMaterial == Init /\ [][NextMaterial]_vars

-----------------------------------------------------------------------------
(* Claims about the session and the database *)

\* the decoded tuples agree: two logged pairs with the same style code have the
\* same decoded columns
LogAgrees == \A p \in decoded_log : \A q \in decoded_log : p[1] = q[1] => p[2] = q[2]

\* C3: decoding is a function of the style code and the static lookup tables: in
\* every table of every session state, after any database operations, rows with
\* the same style code get the same (gender, item name, category, year, season),
\* and a decoding step changes neither the lookup tables nor the table it reads
C3_DecodePure ==
    /\ [](lookup = LookupTables /\ LogAgrees)
    /\ [][decoded_log' # decoded_log =>
            /\ lookup' = lookup
            /\ session_sales' = session_sales
            /\ sales_data' = sales_data]_vars

\* the session holds a loaded table of two rows with the same style code, and both
\* a full code and the default code UNKNOWN have been decoded, the one to its
\* columns, the other to the fallback
C3_Witness ==
    /\ Len(session_sales) = 2 /\ session_sales = sales_data
    /\ session_sales[1].code = Str(TWPQ10953) /\ session_sales[2].code = Str(TWPQ10953)
    /\ \E p \in decoded_log : \E q \in decoded_log :
          /\ p[1] = Str(TWPQ10953) /\ p[2].gender = "yeoseong" /\ p[2].category = INEO
          /\ q[1] = Str(UNKNOWN) /\ q[2].gender = ALSUEOPSEUM /\ q[2].category = GITA

\* C10: when the insert of an upload of k rows returns True, the sales table is
\* the table before followed by exactly k new rows, whatever style codes and
\* colors the rows have, and the material table is unchanged
C10_InsertAppendOnly ==
    [][(last_call'.t = "call" /\ last_call'.fn = "save_sales_data" /\ last_call'.ret) =>
          /\ Len(sales_data') = Len(sales_data) + Len(last_call'.arg)
          /\ SubSeq(sales_data', 1, Len(sales_data)) = sales_data
          /\ material_data' = material_data]_vars

\* an insert of one row returned True and the table now holds two rows with the
\* same style code and the same color; the material table has a row
C10_Witness ==
    /\ last_call.t = "call" /\ last_call.fn = "save_sales_data" /\ last_call.ret
    /\ Len(last_call.arg) = 1
    /\ Len(sales_data) = 2
    /\ sales_data[1].code = sales_data[2].code
    /\ sales_data[1].color = sales_data[2].color
    /\ material_data # <<>>

-----------------------------------------------------------------------------
(* Requests to the hosted functions (assistant, predict, insights) *)

\* what requests.post and safe_json make of a request: the post raises (transport
\* error, timeout), the body is no JSON, the JSON is no object (a non-empty list,
\* or an empty one), the object's ok is not truthy, or it is
Responses == {"raise", "notjson", "nonobject", "nonobject_empty", "object_notok", "object_ok"}

Post(to, resp) == [to |-> to, resp |-> resp]

\* the predicted quantity, revenue and confidence as metrics
Prediction == [t |-> "prediction"]
\* st.markdown of the answer
Answer == [t |-> "answer"]

\* the prediction panel after the button: the post is outside any try block
predict_shown(resp) ==
    CASE resp = "raise" -> Uncaught
      [] resp \in {"notjson", "nonobject", "nonobject_empty", "object_notok"} -> Msg("error")
      [] resp = "object_ok" -> Prediction

\* the insights page after the button: `if out and out.get("ok")` with the post
\* outside any try block; a truthy value that is no dict has no get
insights_shown(resp) ==
    CASE resp = "raise" -> Uncaught
      [] resp = "nonobject" -> Uncaught
      [] resp \in {"notjson", "nonobject_empty", "object_notok"} -> Msg("error")
      [] resp = "object_ok" -> Answer

\* the button of the prediction panel; the panel has no button while the session
\* has no sales rows
PredictClick ==
    /\ session_sales # <<>>
    /\ \E resp \in Responses :
        /\ posts' = <<Post("predict", resp)>>
        /\ shown' = predict_shown(resp)
    /\ last_call' = NotCalled
    /\ UNCHANGED <<supabase, sales_data, material_data, cache_sales, cache_material,
                   session_sales, session_material, pureVars, replacing, chatVars, matVars, home_chat, inputs>>

\* the button of the insights page
InsightsClick ==
    /\ \E resp \in Responses :
        /\ posts' = <<Post("insights", resp)>>
        /\ shown' = insights_shown(resp)
    /\ last_call' = NotCalled
    /\ UNCHANGED <<supabase, sales_data, material_data, cache_sales, cache_material,
                   session_sales, session_material, pureVars, replacing, chatVars, matVars, home_chat, inputs>>

-----------------------------------------------------------------------------
(* The home chat *)

Questions == {"q1", "q2"}

UserEntry(q) == [role |-> "user", content |-> q]
AssistantEntry(kind) == [role |-> "assistant", content |-> kind]

\* a mutant of home_chat_reply: no entry is added when the post raises
home_chat_reply_silent(resp) ==
    CASE resp = "raise" -> <<>>
      [] resp = "notjson" -> <<AssistantEntry("not_json")>>
      [] resp \in {"nonobject", "nonobject_empty"} -> <<AssistantEntry("not_dict")>>
      [] resp = "object_notok" -> <<AssistantEntry("not_ok")>>
      [] resp = "object_ok" -> <<AssistantEntry("answer")>>

\* the entries the question handler adds after the user's entry: every branch of
\* the response handling and the except clause add one assistant entry
home_chat_reply(resp) ==
    CASE resp = "raise" -> <<AssistantEntry("call_failed")>>
      [] resp = "notjson" -> <<AssistantEntry("not_json")>>
      [] resp \in {"nonobject", "nonobject_empty"} -> <<AssistantEntry("not_dict")>>
      [] resp = "object_notok" -> <<AssistantEntry("not_ok")>>
      [] resp = "object_ok" -> <<AssistantEntry("answer")>>

\* home_chat[-12:], the entries that go into the payload
HISTORY_LEN == 12
\* home_chat[-40:], the entries the page draws before it reads the question
SHOWN_LEN == 40

\* the chat messages on the screen
Screen(msgs) == [t |-> "chat", msgs |-> msgs]

\* s[-n:]
LastN(s, n) == SubSeq(s, Len(s) - Min(n, Len(s)) + 1, Len(s))

\* a run of the home page with a question typed into st.chat_input: the page draws
\* the recent entries, appends and draws the question, takes the history from the
\* log that now ends with the question, posts it, and appends and draws the reply
HomeChatQuestion ==
    /\ \E q \in Questions, resp \in Responses :
        LET asked == Append(home_chat, UserEntry(q)) IN
        /\ history' = LastN(asked, HISTORY_LEN)
        /\ home_chat' = asked \o home_chat_reply(resp)
        /\ rendered' = Screen(LastN(home_chat, SHOWN_LEN) \o <<UserEntry(q)>> \o home_chat_reply(resp))
        /\ posts' = <<Post("assistant", resp)>>
        /\ shown' = IF resp = "object_ok" THEN Answer ELSE Msg("error")
    /\ last_call' = NotCalled
    /\ UNCHANGED <<supabase, sales_data, material_data, cache_sales, cache_material,
                   session_sales, session_material, pureVars, replacing, matVars, inputs>>

\* a question typed into st.chat_input
HomeChatAsk ==
    /\ Len(home_chat) < 2 * MaxQuestions
    /\ HomeChatQuestion

\* a run of the home page without a question: the page draws the recent entries
HomeView ==
    /\ rendered' = Screen(LastN(home_chat, SHOWN_LEN))
    /\ history' = <<>>
    /\ posts' = <<>> /\ shown' = NotCalled
    /\ last_call' = NotCalled
    /\ UNCHANGED <<supabase, sales_data, material_data, cache_sales, cache_material,
                   session_sales, session_material, pureVars, replacing, matVars, home_chat, inputs>>

\* the button that clears the chat: the log is emptied and the page runs again
HomeChatClear ==
    /\ home_chat' = <<>>
    /\ history' = <<>> /\ rendered' = Screen(<<>>)
    /\ posts' = <<>> /\ shown' = NotCalled
    /\ last_call' = NotCalled
    /\ UNCHANGED <<supabase, sales_data, material_data, cache_sales, cache_material,
                   session_sales, session_material, pureVars, replacing, matVars, inputs>>

NextChat == HomeChatAsk \/ HomeChatClear

SpecChat == InitEnrich /\ [][NextChat]_vars

\* the log alternates user, assistant, user, assistant
Alternates(log) ==
    /\ Len(log) % 2 = 0
    /\ \A i \in 1..Len(log) : log[i].role = IF i % 2 = 1 THEN "user" ELSE "assistant"

\* C20: the home chat starts empty and stays alternating user, assistant; a
\* handled question adds one user entry and then one assistant entry whatever the
\* outcome of the call, and the clear button empties the log
C20_ChatWellFormed ==
    /\ [](Alternates(home_chat))
    /\ [][(posts' # <<>> /\ posts'[1].to = "assistant") =>
            /\ Len(home_chat') = Len(home_chat) + 2
            /\ SubSeq(home_chat', 1, Len(home_chat)) = home_chat
            /\ home_chat'[Len(home_chat) + 1].role = "user"
            /\ home_chat'[Len(home_chat) + 2].role = "assistant"]_vars
    /\ [][posts' = <<>> => home_chat' = <<>>]_vars

\* a question whose post raised was handled after an answered one: the log holds
\* four entries, the last one the message of the except clause
C20_Witness ==
    /\ Len(home_chat) = 4
    /\ home_chat[2] = AssistantEntry("answer")
    /\ home_chat[3].role = "user"
    /\ home_chat[4] = AssistantEntry("call_failed")
    /\ posts = <<Post("assistant", "raise")>>

-----------------------------------------------------------------------------
(* The database functions called one at a time, and the requests, each as the
   first thing that happens from the stored tables a session may find *)

\* the sales and material tables a session may find
StoredSales == { SalesRecords(u) : u \in SalesUploads }
StoredMaterial == { MaterialRecords(u) : u \in MaterialUploads }

InitCalls ==
    /\ lookup = LookupTables
    /\ df = <<>> /\ enriched = NotCalled /\ decoded_log = {}
    /\ blend_fibers = None /\ blend_ratio = None
    /\ comps = NotCalled /\ feats = NotCalled
    /\ fiber_name = <<>> /\ fiber_norm = NotCalled
    /\ supabase \in {"client", "None"}
    /\ sales_data \in StoredSales
    /\ material_data \in StoredMaterial
    /\ session_sales = QuerySales(supabase, sales_data, FALSE)
    /\ session_material = QueryMaterial(supabase, material_data, FALSE)
    /\ \E expired \in BOOLEAN :
         /\ cache_sales = IF expired THEN Miss ELSE Hit(session_sales)
         /\ cache_material = IF expired THEN Miss ELSE Hit(session_material)
    /\ last_call = NotCalled
    /\ home_chat = <<>> /\ posts = <<>> /\ shown = NotCalled /\ inputs = NotCalled
    /\ replacing = <<>>
    /\ history = <<>> /\ rendered = NotCalled
    /\ material_name = None /\ mat_df = <<>> /\ mat_row = NotCalled

\* nothing has happened in the session yet
Fresh ==
    /\ last_call = NotCalled /\ posts = <<>> /\ shown = NotCalled
    /\ home_chat = <<>> /\ inputs = NotCalled

\* the effect of a call of a sales function with the result r
ReturnSales(fn, arg, r) ==
    /\ last_call' = Call(fn, arg, r)
    /\ sales_data' = r.table
    /\ cache_sales' = IF r.cleared THEN Miss ELSE cache_sales
    /\ cache_material' = IF r.cleared THEN Miss ELSE cache_material
    /\ UNCHANGED <<supabase, material_data, session_sales, session_material, pureVars, replacing, chatVars, matVars, uiVars>>

ReturnMaterial(fn, arg, r) ==
    /\ last_call' = Call(fn, arg, r)
    /\ material_data' = r.table
    /\ cache_sales' = IF r.cleared THEN Miss ELSE cache_sales
    /\ cache_material' = IF r.cleared THEN Miss ELSE cache_material
    /\ UNCHANGED <<supabase, sales_data, session_sales, session_material, pureVars, replacing, chatVars, matVars, uiVars>>

CallSaveSales ==
    \E u \in SalesUploads, fault \in {"none", "insert"} :
        ReturnSales("save_sales_data", u, save_sales_data(supabase, sales_data, u, fault = "insert"))

CallReplaceSales ==
    \E u \in SalesUploads, fault \in {"none", "delete", "insert"} :
        ReturnSales("replace_sales_data", u,
                    replace_sales_data(supabase, sales_data, u, fault = "delete", fault = "insert"))

CallDeleteAllSales ==
    \E fault \in {"none", "delete"} :
        ReturnSales("delete_all_sales_data", <<>>,
                    delete_all_data(supabase, sales_data, fault = "delete"))

CallSaveMaterial ==
    \E u \in MaterialUploads, fault \in {"none", "insert"} :
        ReturnMaterial("save_material_data", u,
                       save_material_data(supabase, material_data, u, fault = "insert"))

CallReplaceMaterial ==
    \E u \in MaterialUploads, fault \in {"none", "delete", "insert"} :
        ReturnMaterial("replace_material_data", u,
                       replace_material_data(supabase, material_data, u, fault = "delete", fault = "insert"))

CallDeleteAllMaterial ==
    \E fault \in {"none", "delete"} :
        ReturnMaterial("delete_all_material_data", <<>>,
                       delete_all_data(supabase, material_data, fault = "delete"))

\* load_sales_data(): the cached table, or the body's result, which is cached
CallLoadSales ==
    \E fault \in {"none", "select"} :
        LET r == IF cache_sales.t = "df"
                 THEN Returned(cache_sales.rows, sales_data, FALSE, <<>>, "none")
                 ELSE load_sales_data(supabase, sales_data, fault = "select")
        IN /\ last_call' = Call("load_sales_data", <<>>, r)
           /\ cache_sales' = Hit(r.ret)
           /\ UNCHANGED <<supabase, sales_data, material_data, cache_material,
                          session_sales, session_material, pureVars, replacing, chatVars, matVars, uiVars>>

CallLoadMaterial ==
    \E fault \in {"none", "select"} :
        LET r == IF cache_material.t = "df"
                 THEN Returned(cache_material.rows, material_data, FALSE, <<>>, "none")
                 ELSE load_material_data(supabase, material_data, fault = "select")
        IN /\ last_call' = Call("load_material_data", <<>>, r)
           /\ cache_material' = Hit(r.ret)
           /\ UNCHANGED <<supabase, sales_data, material_data, cache_sales,
                          session_sales, session_material, pureVars, replacing, chatVars, matVars, uiVars>>

NextCalls ==
    \/ Fresh /\ CallSaveSales
    \/ Fresh /\ CallReplaceSales
    \/ Fresh /\ CallDeleteAllSales
    \/ Fresh /\ CallSaveMaterial
    \/ Fresh /\ CallReplaceMaterial
    \/ Fresh /\ CallDeleteAllMaterial
    \/ Fresh /\ CallLoadSales
    \/ Fresh /\ CallLoadMaterial
    \/ Fresh /\ HomeChatAsk
    \/ Fresh /\ PredictClick
    \/ Fresh /\ InsightsClick

SpecCalls == InitCalls /\ [][NextCalls]_vars

-----------------------------------------------------------------------------
(* Claims about the database functions and the requests *)

Called(fn) == last_call.t = "call" /\ last_call.fn = fn

\* C11: after replace_sales_data or replace_material_data returned True, the table
\* holds exactly the normalised records of the upload, one per uploaded row, and
\* no row it held before
C11_ReplaceExact ==
    /\ (Called("replace_sales_data") /\ last_call.ret) =>
          sales_data = [i \in 1..Len(last_call.arg) |-> NormSalesRow(last_call.arg[i])]
    /\ (Called("replace_material_data") /\ last_call.ret) =>
          material_data = [i \in 1..Len(last_call.arg) |-> NormMaterialRow(last_call.arg[i])]

\* the material table held rows, and replace_material_data returned True for a
\* sheet of two rows, the first without a name: the table holds two rows, the
\* first named UNKNOWN_MATERIAL
C11_Witness ==
    /\ Called("replace_material_data") /\ last_call.ret
    /\ session_material # <<>>
    /\ Len(last_call.arg) = 2 /\ last_call.arg[1].name = None
    /\ Len(material_data) = 2 /\ material_data[1].name = Str(UNKNOWN_MATERIAL)

Loaders == {"load_sales_data", "load_material_data"}

\* C12: every database function returns for every outcome of its database calls:
\* no exception leaves it, a missing client or a raising call gives False (an empty
\* table for the loaders), and without a client no database call is issued
C12_AlwaysReturns ==
    last_call.t = "call" =>
        /\ ~last_call.exc
        /\ IF last_call.fn \in Loaders
           THEN /\ DOMAIN last_call.ret = 1..Len(last_call.ret)
                /\ (supabase = "None" \/ last_call.msg = "error") => last_call.ret = <<>>
           ELSE /\ last_call.ret \in BOOLEAN
                /\ (supabase = "None" \/ last_call.msg = "error") => last_call.ret = FALSE
        /\ supabase = "None" => last_call.calls = <<>>

\* the insert of replace_material_data raised after its delete: the exception was
\* caught, an error rendered and False returned
C12_Witness ==
    /\ Called("replace_material_data")
    /\ last_call.calls = <<"delete", "insert">>
    /\ last_call.msg = "error" /\ last_call.ret = FALSE /\ ~last_call.exc

Count(x, seq) == Cardinality({ i \in 1..Len(seq) : seq[i] = x })

\* C13: no retries: a database function issues at most one delete, one insert
\* and one select, also after one of them failed, and a chat, prediction or
\* insights request issues at most one HTTP POST
C13_NoRetry ==
    /\ last_call.t = "call" =>
          /\ Count("delete", last_call.calls) <= 1
          /\ Count("insert", last_call.calls) <= 1
          /\ Count("select", last_call.calls) <= 1
    /\ Len(posts) <= 1

\* the insert of save_sales_data raised: it was issued once and False returned
C13_Witness ==
    /\ Called("save_sales_data")
    /\ last_call.calls = <<"insert">>
    /\ last_call.msg = "error" /\ last_call.ret = FALSE

\* C14: whenever the request of the prediction panel fails (the post raises, the
\* body is no JSON, the JSON is no object, ok is not truthy), an error message is
\* rendered and no prediction
C14_PredictFailureShown ==
    (posts # <<>> /\ posts[1].to = "predict" /\ posts[1].resp # "object_ok") =>
        shown = Msg("error")

\* C17: a replace_sales_data or replace_material_data that returns False leaves
\* the rows of the tables as they were
C17_FailedReplaceIntact ==
    [][(/\ last_call'.t = "call"
        /\ last_call'.fn \in {"replace_sales_data", "replace_material_data"}
        /\ ~last_call'.ret) =>
            /\ sales_data' = sales_data
            /\ material_data' = material_data]_vars

-----------------------------------------------------------------------------
(* The data pages: manual entry, the uploads with their column check, edit and
   save, delete; each as the first thing that happens from the stored tables *)

\* the template columns, by the field names of the rows
SALES_COLS == {"code", "color", "price", "mfg", "material", "fit", "length", "qty", "amt"}
MATERIAL_COLS == {"name", "supplier", "blend_fibers", "blend_ratio", "weight", "org",
                  "ct", "sf", "fb"}

\* an uploaded sheet: its columns, and its rows; a cell of a column the sheet does
\* not have reads None once the function has added the column
Sheet(cols, rows) == [cols |-> cols, rows |-> rows]
Blank(row, missing) == [f \in DOMAIN row |-> IF f \in missing THEN None ELSE row[f]]

SalesSheets ==
    { Sheet(SALES_COLS \ m, [i \in DOMAIN u |-> Blank(u[i], m)]) :
        m \in {{}, {"color"}}, u \in SalesUploads }
MaterialSheets ==
    { Sheet(MATERIAL_COLS \ m, [i \in DOMAIN u |-> Blank(u[i], m)]) :
        m \in {{}, {"weight", "org"}}, u \in MaterialUploads }

\* a mutant of missing_columns: no column is ever reported missing
missing_columns_none(template, sheet) == {}

\* missing = [c for c in SALES_COLS if c not in df_upload.columns]
missing_columns(template, sheet) == template \ sheet.cols

\* a mutant of manual_ok: only the style code is required
manual_ok_code_only(code, color, material) == code # <<>>

\* if input_code and input_color and input_material
manual_ok(code, color, material) == code # <<>> /\ color # <<>> /\ material # <<>>

\* a handler that renders a message and calls no database function
OnlyShow(m) ==
    /\ shown' = m /\ posts' = <<>> /\ last_call' = NotCalled
    /\ UNCHANGED <<supabase, sales_data, material_data, cache_sales, cache_material,
                   session_sales, session_material, pureVars, replacing, chatVars, matVars, home_chat>>

\* button "판매 데이터 추가" of the manual form
ManualAdd ==
    \E code \in {<<>>, <<" ">>, TWPQ10953}, color \in {<<>>, BKS}, material \in {<<>>, HS17},
       fault \in Faults \ {"delete"} :
        /\ inputs' = [t |-> "manual", code |-> code, color |-> color, material |-> material]
        /\ IF manual_ok(code, color, material)
           THEN LET new_row == <<SalesRow(Str(code), Str(color), Str(material), Num(15))>>
                    r == save_sales_data(supabase, sales_data, new_row, fault = "insert")
                IN /\ last_call' = Call("save_sales_data", new_row, r)
                   /\ AfterSalesCall(r, fault)
           ELSE OnlyShow(Msg("required"))

\* the sales upload tab with a sheet in the uploader: the column check, then the
\* preview with the two buttons
SalesUploadPage ==
    \E sheet \in SalesSheets, click \in {"none", "insert", "replace"}, fault \in Faults :
        /\ inputs' = [t |-> "sales_upload", cols |-> sheet.cols, click |-> click]
        /\ IF missing_columns(SALES_COLS, sheet) # {}
           THEN OnlyShow(Msg("missing_columns"))
           ELSE IF click = "none"
           THEN OnlyShow(NotCalled)
           ELSE LET r == IF click = "insert"
                         THEN save_sales_data(supabase, sales_data, sheet.rows, fault = "insert")
                         ELSE replace_sales_data(supabase, sales_data, sheet.rows,
                                                 fault = "delete", fault = "insert")
                IN /\ last_call' = Call(IF click = "insert" THEN "save_sales_data"
                                        ELSE "replace_sales_data", sheet.rows, r)
                   /\ AfterSalesCall(r, fault)

\* the material upload tab with a sheet in the uploader
MaterialUploadPage ==
    \E sheet \in MaterialSheets, click \in {"none", "insert", "replace"}, fault \in Faults :
        /\ inputs' = [t |-> "material_upload", cols |-> sheet.cols, click |-> click]
        /\ IF missing_columns(MATERIAL_COLS, sheet) # {}
           THEN OnlyShow(Msg("missing_columns"))
           ELSE IF click = "none"
           THEN OnlyShow(NotCalled)
           ELSE LET r == IF click = "insert"
                         THEN save_material_data(supabase, material_data, sheet.rows, fault = "insert")
                         ELSE replace_material_data(supabase, material_data, sheet.rows,
                                                    fault = "delete", fault = "insert")
                IN /\ last_call' = Call(IF click = "insert" THEN "save_material_data"
                                        ELSE "replace_material_data", sheet.rows, r)
                   /\ AfterMaterialCall(r, fault)

\* button "판매 편집 내용 저장(전체 교체)": the edited table replaces the stored one
EditSaveSales ==
    \E df_edit_sales \in SalesUploads, fault \in Faults :
        /\ inputs' = [t |-> "edit_sales"]
        /\ LET r == replace_sales_data(supabase, sales_data, df_edit_sales,
                                       fault = "delete", fault = "insert")
           IN /\ last_call' = Call("replace_sales_data", df_edit_sales, r)
              /\ AfterSalesCall(r, fault)

\* button "소재 편집 내용 저장(전체 교체)"
EditSaveMaterial ==
    \E df_edit_mat \in MaterialUploads, fault \in Faults :
        /\ inputs' = [t |-> "edit_material"]
        /\ LET r == replace_material_data(supabase, material_data, df_edit_mat,
                                          fault = "delete", fault = "insert")
           IN /\ last_call' = Call("replace_material_data", df_edit_mat, r)
              /\ AfterMaterialCall(r, fault)

InitPages == InitCalls /\ supabase = "client"

NextPages ==
    \/ Fresh /\ ManualAdd
    \/ Fresh /\ SalesUploadPage
    \/ Fresh /\ MaterialUploadPage
    \/ Fresh /\ EditSaveSales
    \/ Fresh /\ EditSaveMaterial
    \/ Fresh /\ DeleteAllSales
    \/ Fresh /\ DeleteAllMaterial

SpecPages == InitPages /\ [][NextPages]_vars

-----------------------------------------------------------------------------
(* Claims about the data pages *)

\* C15: the manual add writes only when style code, color and material name are
\* all non-empty; otherwise the error is shown, no database function is called,
\* and the tables and the session's sales data are unchanged
C15_ManualRequiresFields ==
    [][inputs'.t = "manual" =>
         \/ inputs'.code # <<>> /\ inputs'.color # <<>> /\ inputs'.material # <<>>
         \/ /\ shown' = Msg("required")
            /\ last_call' = NotCalled
            /\ sales_data' = sales_data /\ material_data' = material_data
            /\ session_sales' = session_sales]_vars

\* the manual form was submitted with a color and a material but no style code
\* while the table held rows: the error is shown
C15_Witness ==
    /\ inputs.t = "manual"
    /\ inputs.code = <<>> /\ inputs.color = BKS /\ inputs.material = HS17
    /\ shown = Msg("required")
    /\ sales_data # <<>>

\* C16: for an uploaded sheet that lacks a template column the missing columns
\* are reported and neither button acts: no database function is called and the
\* tables are unchanged
C16_MissingColumnsBlock ==
    [][(\/ inputs'.t = "sales_upload" /\ inputs'.cols # SALES_COLS
        \/ inputs'.t = "material_upload" /\ inputs'.cols # MATERIAL_COLS) =>
            /\ shown' = Msg("missing_columns")
            /\ last_call' = NotCalled
            /\ sales_data' = sales_data /\ material_data' = material_data]_vars

\* a material sheet without the weight column was in the uploader, the replace
\* was asked for, and the stored rows are still there
C16_Witness ==
    /\ inputs.t = "material_upload" /\ inputs.click = "replace"
    /\ "weight" \notin inputs.cols
    /\ shown = Msg("missing_columns")
    /\ material_data # <<>>

\* C18: after every data action that reached a database function, successful or
\* not, the session's tables hold the rows of the stored tables
C18_SessionMatchesTable ==
    last_call.t = "call" =>
        /\ session_sales = SalesRecords(sales_data)
        /\ session_material = [i \in 1..Len(material_data) |-> LoadedMaterialRow(material_data[i])]

-----------------------------------------------------------------------------
(* Two sessions inside replace_sales_data at the same time: each issues its
   delete and then its insert, and the database serves the calls one by one *)

Sessions == {1, 2}

InitRace ==
    /\ InitCalls /\ supabase = "client"
    /\ cache_sales = Miss
    /\ material_data = <<>>

\* the sessions press their replace buttons: each has its upload
RaceStart ==
    /\ replacing = <<>>
    /\ replacing' \in [Sessions -> { [upload |-> u, pc |-> "start", ret |-> FALSE] : u \in SalesUploads }]
    /\ UNCHANGED <<dbVars, pureVars, uiVars, chatVars, matVars>>

\* supabase.table("sales_data").delete().neq("id", 0).execute() of session s
RaceDelete(s) ==
    /\ replacing # <<>> /\ replacing[s].pc = "start"
    /\ \E delete_raises \in BOOLEAN :
         IF delete_raises
         THEN /\ replacing' = [replacing EXCEPT ![s].pc = "done"]
              /\ UNCHANGED sales_data
         ELSE /\ replacing' = [replacing EXCEPT ![s].pc = "deleted"]
              /\ sales_data' = <<>>
    /\ UNCHANGED <<supabase, material_data, cache_sales, cache_material, session_sales,
                   session_material, last_call, pureVars, uiVars, chatVars, matVars>>

\* the rest of replace_sales_data of session s: the records, their insert, the
\* clearing of the cache, the result
RaceInsert(s) ==
    /\ replacing # <<>> /\ replacing[s].pc = "deleted"
    /\ \E insert_raises \in BOOLEAN :
         LET records == SalesRecords(replacing[s].upload) IN
         IF records = <<>> \/ insert_raises
         THEN /\ replacing' = [replacing EXCEPT ![s].pc = "done"]
              /\ UNCHANGED <<sales_data, cache_sales, cache_material>>
         ELSE /\ replacing' = [replacing EXCEPT ![s].pc = "done", ![s].ret = TRUE]
              /\ sales_data' = sales_data \o records
              /\ cache_sales' = Miss /\ cache_material' = Miss
    /\ UNCHANGED <<supabase, material_data, session_sales, session_material, last_call,
                   pureVars, uiVars, chatVars, matVars>>

NextRace ==
    \/ RaceStart
    \/ \E s \in Sessions : RaceDelete(s)
    \/ \E s \in Sessions : RaceInsert(s)

SpecRace == InitRace /\ [][NextRace]_vars

\* C19: when two sessions have run replace_sales_data concurrently and both
\* returned True, the table holds exactly the records of one of the two uploads
C19_ReplaceSerializable ==
    (replacing # <<>> /\ \A s \in Sessions : replacing[s].pc = "done" /\ replacing[s].ret) =>
        \E s \in Sessions : sales_data = SalesRecords(replacing[s].upload)

-----------------------------------------------------------------------------
(* The home chat with a long log: one run of the home page over a log that
   earlier questions have built *)

\* the number of questions a stored log holds
MaxTurns == 22

\* the log after n questions, the first k of them answered, the others failed
ChatLog(n, k) ==
    [i \in 1..(2 * n) |->
        IF i % 2 = 1
        THEN UserEntry(IF (i + 1) \div 2 <= k THEN "q1" ELSE "q2")
        ELSE AssistantEntry(IF i \div 2 <= k THEN "answer" ELSE "call_failed")]

ChatLogs == { ChatLog(n, k) : n \in 0..MaxTurns, k \in 0..MaxTurns }

InitScroll ==
    /\ lookup = LookupTables
    /\ df = <<>> /\ enriched = NotCalled /\ decoded_log = {}
    /\ blend_fibers = None /\ blend_ratio = None
    /\ comps = NotCalled /\ feats = NotCalled
    /\ fiber_name = <<>> /\ fiber_norm = NotCalled
    /\ supabase = "client"
    /\ sales_data = <<>> /\ material_data = <<>>
    /\ session_sales = <<>> /\ session_material = <<>>
    /\ cache_sales = Hit(<<>>) /\ cache_material = Hit(<<>>)
    /\ last_call = NotCalled
    /\ home_chat \in ChatLogs
    /\ posts = <<>> /\ shown = NotCalled /\ inputs = NotCalled
    /\ replacing = <<>>
    /\ history = <<>> /\ rendered = NotCalled
    /\ material_name = None /\ mat_df = <<>> /\ mat_row = NotCalled

\* the home page has not run over the log yet
Unseen == rendered = NotCalled

NextScroll ==
    \/ Unseen /\ HomeChatQuestion
    \/ Unseen /\ HomeView
    \/ Unseen /\ HomeChatClear

SpecScroll == InitScroll /\ [][NextScroll]_vars

\* the question of the latest run, as the log holds it: the entry before the reply
Asked == SubSeq(home_chat, 1, Len(home_chat) - 1)

\* C21: the history sent with a question is the most recent entries of the log in
\* their order, at most 12, the last of them the question; the screen shows the
\* most recent 40 entries of the log and no more; a question adds to the log and
\* drops nothing from it
C21_RecentHistoryOnly ==
    /\ [](history # <<>> =>
            /\ Len(history) <= HISTORY_LEN
            /\ history = LastN(Asked, Len(history))
            /\ Len(history) = Min(HISTORY_LEN, Len(Asked))
            /\ history[Len(history)] = home_chat[Len(home_chat) - 1]
            /\ history[Len(history)].role = "user")
    /\ [](rendered # NotCalled =>
            /\ Len(rendered.msgs) <= SHOWN_LEN
            /\ rendered.msgs = LastN(home_chat, Len(rendered.msgs))
            /\ Len(rendered.msgs) = Min(SHOWN_LEN, Len(home_chat)))
    /\ [][history' # <<>> =>
            SubSeq(home_chat', 1, Len(home_chat)) = home_chat]_vars

-----------------------------------------------------------------------------
(* The normalisation of the sales functions over sheets of one row whose cells
   are empty, blank, the texts None and nan, padded texts, and numbers as text *)

NONE_TEXT == <<"N","o","n","e">>
NAN_TEXT == <<"n","a","n">>

TextCells ==
    { None, Str(<<>>), Str(<<" ">>), Str(NONE_TEXT), Str(NAN_TEXT),
      Str(<<" ">> \o NONE_TEXT \o <<" ">>), Str(NAN_TEXT \o <<" ">>),
      Str(BKS), Str(<<" ">> \o BKS \o <<" ">>) }

NumberCells == { None, Num(0), Num(15), Str(<<"1","5">>), Str(<<"x">>), Str(<<>>) }

SheetRows ==
    { [SalesRow(code, Str(BKS), Str(HS17), qty) EXCEPT !.length = length, !.price = price] :
        code \in TextCells, length \in {Str(BKS), Str(<<" ">> \o NAN_TEXT)},
        qty \in NumberCells, price \in {Num(149000), None} }

InitNorm ==
    /\ InitCalls /\ supabase = "client"
    /\ cache_sales = Miss
    /\ material_data = <<>>

SaveSheetRow ==
    \E row \in SheetRows, fault \in {"none", "insert"} :
        ReturnSales("save_sales_data", <<row>>,
                    save_sales_data(supabase, sales_data, <<row>>, fault = "insert"))

ReplaceSheetRow ==
    \E row \in SheetRows, fault \in {"none", "delete", "insert"} :
        ReturnSales("replace_sales_data", <<row>>,
                    replace_sales_data(supabase, sales_data, <<row>>, fault = "delete", fault = "insert"))

NextNorm ==
    \/ Fresh /\ SaveSheetRow
    \/ Fresh /\ ReplaceSheetRow

SpecNorm == InitNorm /\ [][NextNorm]_vars

RequiredText == {"code", "color", "mfg", "material", "fit", "length"}
Numbers == {"price", "qty", "amt"}

\* a cell that is missing, blank, or the text None or nan
NoText(c) ==
    \/ c = None
    \/ c.t = "str" /\ (Strip(c.s) = <<>> \/ c.s \in {NONE_TEXT, NAN_TEXT})

\* a cell that holds a number, as a number or as digits
IsNumber(c) ==
    \/ c.t = "num"
    \/ c.t = "str" /\ c.s # <<>> /\ \A i \in 1..Len(c.s) : IsDigit(c.s[i])

\* the sales function of the latest step wrote the records of its sheet
Wrote ==
    /\ last_call.t = "call"
    /\ last_call.fn \in {"save_sales_data", "replace_sales_data"}
    /\ last_call.ret

\* C22: every record of the sales table has a non-blank text in each of the six
\* required fields and a number for price, quantity and revenue; a written cell
\* that was missing, blank, None or nan is stored as UNKNOWN, and one that held no
\* number as 0; the normalisation of a stored record is that record
C22_RecordsNormalized ==
    /\ \A i \in 1..Len(sales_data) :
         /\ \A f \in RequiredText :
              sales_data[i][f].t = "str" /\ Strip(sales_data[i][f].s) # <<>>
         /\ \A f \in Numbers : sales_data[i][f].t = "num"
         /\ NormSalesRow(sales_data[i]) = sales_data[i]
    /\ Wrote =>
         \A k \in 1..Len(last_call.arg) :
            LET from == last_call.arg[k]
                to == sales_data[Len(sales_data) - Len(last_call.arg) + k]
            IN /\ \A f \in RequiredText : NoText(from[f]) => to[f] = Str(UNKNOWN)
               /\ \A f \in Numbers : ~IsNumber(from[f]) => to[f] = Num(0)

-----------------------------------------------------------------------------
(* get_material_row: the lookup of a material in the material table *)

\* the rows a material table handed to the lookup holds at most
MaxMaster == 2

\* re.compile of a pattern over letters, digits, blanks, "-", "." and "(": an
\* opening parenthesis that is never closed is no pattern
RegexCompiles(pat) == \A i \in 1..Len(pat) : pat[i] # "("

\* one pattern character against one character: "." is any character
RegexCharMatches(p, c) == p = "." \/ p = c

\* re.search of a pattern of such characters
RegexSearch(pat, text) ==
    \E i \in 0..(Len(text) - Len(pat)) :
        \A j \in 1..Len(pat) : RegexCharMatches(pat[j], text[i + j])

\* m.iloc[0].to_dict()
Found(row) == [t |-> "row", row |-> row]
\* re.error leaves the function
RaisedError == [t |-> "raise"]

\* get_material_row: the first row whose trimmed name equals the trimmed query,
\* else the first row in whose name str.contains finds the trimmed query, which it
\* takes as a regular expression (regex=True is its default)
get_material_row(name, table) ==
    IF table = <<>> \/ ~Truthy(name) THEN None
    ELSE LET q == Strip(PyStr(name))
             m == { i \in 1..Len(table) : Strip(PyStr(table[i].name)) = q }
             m2 == { i \in 1..Len(table) : RegexSearch(q, PyStr(table[i].name)) }
             first(S) == CHOOSE i \in S : \A j \in S : i <= j
         IN IF m # {} THEN Found(table[first(m)])
            ELSE IF ~RegexCompiles(q) THEN RaisedError
            ELSE IF m2 # {} THEN Found(table[first(m2)])
            ELSE None

HS170 == HS17 \o <<"0">>
HS_17 == <<"H","S"," ","1","7">>

\* names of the material table, as load_material_data returns them
MasterNames == { HS17, HS170, HS_17, <<"S","-","1">> }

\* the rows of the table: one per name, and a second one for the first name
MasterRows ==
    { LoadedMaterialRow(MaterialRow(Str(n), None, None, Num(300))) : n \in MasterNames }
        \cup { LoadedMaterialRow(MaterialRow(Str(HS17), None, None, Num(200))) }

MasterTables == SeqsUpTo(MasterRows, MaxMaster)

\* the queries: none, empty, blank, a name, a padded name, parts of names, a name
\* that is in no row, and names with a "." or a "("
MaterialQueries ==
    { None, Str(<<>>), Str(<<" ">>), Str(HS17), Str(<<" ">> \o HS17 \o <<" ">>),
      Str(<<"S","-","1">>), Str(<<"1","7">>), Str(BKS),
      Str(<<"H","S",".","1","7">>), Str(<<"H","S","(","1","7">>) }

InitLookup ==
    /\ lookup = LookupTables
    /\ df = <<>> /\ enriched = NotCalled /\ decoded_log = {}
    /\ blend_fibers = None /\ blend_ratio = None
    /\ comps = NotCalled /\ feats = NotCalled
    /\ fiber_name = <<>> /\ fiber_norm = NotCalled
    /\ supabase = "client"
    /\ sales_data = <<>> /\ session_sales = <<>> /\ cache_sales = Hit(<<>>)
    /\ material_data = <<>> /\ session_material = <<>> /\ cache_material = Hit(<<>>)
    /\ last_call = NotCalled
    /\ home_chat = <<>> /\ posts = <<>> /\ shown = NotCalled /\ inputs = NotCalled
    /\ replacing = <<>>
    /\ history = <<>> /\ rendered = NotCalled
    /\ material_name \in MaterialQueries
    /\ mat_df \in MasterTables
    /\ mat_row = NotCalled

GetMaterialRow ==
    /\ mat_row = NotCalled
    /\ mat_row' = get_material_row(material_name, mat_df)
    /\ UNCHANGED <<dbVars, pureVars, uiVars, replacing, chatVars, material_name, mat_df>>

NextLookup == GetMaterialRow

SpecLookup == InitLookup /\ [][NextLookup]_vars

\* the rows whose trimmed name is the trimmed query, and those whose name holds it
ExactRows == { i \in 1..Len(mat_df) : Strip(PyStr(mat_df[i].name)) = Strip(PyStr(material_name)) }
ContainingRows == { i \in 1..Len(mat_df) :
                      Contains(PyStr(mat_df[i].name), Strip(PyStr(material_name))) }
FirstOf(S) == CHOOSE i \in S : \A j \in S : i <= j

\* C23: get_material_row returns the first row whose trimmed name equals the
\* trimmed query when there is one; else the first row whose name contains the
\* query when there is one; and None when the table is empty, the query is empty,
\* or no row matches either way
C23_ExactMatchFirst ==
    mat_row # NotCalled =>
        IF mat_df = <<>> \/ ~Truthy(material_name) THEN mat_row = None
        ELSE IF ExactRows # {} THEN mat_row = Found(mat_df[FirstOf(ExactRows)])
        ELSE IF ContainingRows # {} THEN mat_row = Found(mat_df[FirstOf(ContainingRows)])
        ELSE mat_row = None

=============================================================================
